---------------------------- MODULE Spec2Model ----------------------------
(***************************************************************************)
(* ADS1115 driver (src/src/ADS1115.cpp): the driver object, its transport  *)
(* wrappers, the health tracker and the single-shot conversion session.    *)
(*                                                                         *)
(* The driver object is the record drv, whose fields carry the names of    *)
(* the private members of class ADS1115 (without the leading underscore).  *)
(* Every member function is an operator from the driver record, the value  *)
(* of millis() and the answers of the injected callbacks to the new driver *)
(* record, the returned Status and the list of callback invocations.       *)
(*                                                                         *)
(* Clock values are uint32_t in the source.  They are kept here by their   *)
(* int32_t reinterpretation (two's complement), so that the uint32 wrap    *)
(* 0xFFFFFFFF -> 0 is the step -1 -> 0 and every value the model reaches   *)
(* is a small integer.                                                     *)
(***************************************************************************)
EXTENDS Integers, Sequences, FiniteSets, TLC

VARIABLES
  drv,    \* the ADS1115 instance
  now,    \* millis(), as int32
  pc,     \* the application: "idle" between two calls, "return" when a call has
          \* just returned, "while" or "body" inside readBlocking's polling loop
  rb,     \* readBlocking's locals: timeoutMs, deadlineMs, readyAtMs, and the two
          \* values of millis() its loop has read last (whileMs, nowMs)
  last    \* the call that has just returned: name, argument, Status, and the
          \* callbacks invoked (inside readBlocking: by its latest step)

vars == <<drv, now, pc, rb, last>>

----------------------------------------------------------------------------
(* Bounds of the model *)

MaxClock == 1      \* Spec: the clock is advanced up to this value
MaxIo == 6         \* Spec: calls are issued while fewer tracked results are counted
ConvMaxClock == 4  \* SpecConv: the clock is advanced up to this value
ConvMaxIo == 6     \* SpecConv: calls are issued while fewer tracked results are counted
WordMaxIo == 1     \* SpecWord: calls are issued while fewer tracked results are counted
WrapMaxClock == 5  \* SpecWrap: the clock is advanced this many ms from its first value

----------------------------------------------------------------------------
(* Status.h *)

St(code, detail) == [code |-> code, detail |-> detail]

Ok == St("OK", 0)

Error(code, detail) == St(code, detail)

\* an ok() that also takes an operation in progress for a success
okOrInProgress(st) == st.code \in {"OK", "IN_PROGRESS"}

ok(st) == st.code = "OK"

inProgress(st) == st.code = "IN_PROGRESS"

(* CommandTable.h *)

REG_CONVERSION == 0
REG_CONFIG == 1
REG_LO_THRESH == 2
REG_HI_THRESH == 3

OS_IDLE == 32768
OS_START == 32768

BIT_OS == 15

BIT_MUX == 12
BIT_PGA == 9
BIT_MODE == 8
BIT_DR == 5
BIT_COMP_MODE == 4
BIT_COMP_POL == 3
BIT_COMP_LAT == 2
BIT_COMP_QUE == 0

(* Config.h: enum values *)

CONTINUOUS == 0
SINGLE_SHOT == 1
TRADITIONAL == 0
ACTIVE_HIGH == 1
NON_LATCHING == 0
ASSERT_1 == 0
DISABLE == 3

kMinAddress == 72
kMaxAddress == 75

UINT8_MAX == 255
UINT32_MAX == -1   \* 0xFFFFFFFF, as int32

----------------------------------------------------------------------------
(* Integer conversions *)

\* static_cast<int16_t>(uint16_t)
ToInt16(u) == IF u >= 32768 THEN u - 65536 ELSE u

\* static_cast<uint16_t>(int16_t)
ToUint16(i) == IF i < 0 THEN i + 65536 ELSE i

\* (word & mask) >> bit, for a field of the given width
Field(word, bit, width) == (word \div (2 ^ bit)) % (2 ^ width)

\* the largest int32_t; the least one is -INT32_MAX - 1
INT32_MAX == 2147483647

\* uint32 arithmetic modulo 2^32 on int32 views (the view of a uint32 value of at
\* least 2^31 is the value minus 2^32): a sum or difference that leaves the
\* int32 range is brought back by 2^32, taken off or added in two halves
Add32(a, b) ==
  IF a >= 0 /\ b >= 0 /\ a > INT32_MAX - b
  THEN (a - INT32_MAX - 1) + (b - INT32_MAX - 1)
  ELSE IF a < 0 /\ b < 0 /\ a < (-INT32_MAX - 1) - b
  THEN (a + INT32_MAX + 1) + (b + INT32_MAX + 1)
  ELSE a + b

Sub32(a, b) ==
  IF a >= 0 /\ b < 0 /\ a > INT32_MAX + b
  THEN (a - INT32_MAX - 1) - (b + INT32_MAX + 1)
  ELSE IF a < 0 /\ b >= 0 /\ a < (-INT32_MAX - 1) + b
  THEN (a + INT32_MAX + 1) - (b - INT32_MAX - 1)
  ELSE a - b

\* the unsigned comparison a < b of two uint32 values given by their int32 views:
\* a negative view is an unsigned value of at least 2^31
ULess32(a, b) == IF (a >= 0) = (b >= 0) THEN a < b ELSE a >= 0

\* x++ on a saturating uint32 counter: if (x < UINT32_MAX) x++
SatInc32(x) == IF ULess32(x, UINT32_MAX) THEN Add32(x, 1) ELSE x

----------------------------------------------------------------------------
(* Config: a default-constructed Config, Config.h lines 101-127 *)

DefaultConfig ==
  [ i2cWrite |-> FALSE, i2cWriteRead |-> FALSE,
    i2cAddress |-> 72, i2cTimeoutMs |-> 50,
    mux |-> 4, gain |-> 2, dataRate |-> 4, mode |-> SINGLE_SHOT,
    compMode |-> TRADITIONAL, compPolarity |-> 0, compLatch |-> NON_LATCHING,
    compQueue |-> DISABLE,
    compThresholdHigh |-> 32767, compThresholdLow |-> -32768,
    alertRdyPin |-> -1, gpioRead |-> FALSE,
    offlineThreshold |-> 5 ]

\* the ADS1115 object after construction, ADS1115.h lines 107-124
NewDriver ==
  [ config |-> DefaultConfig,
    initialized |-> FALSE,
    driverState |-> "UNINIT",
    lastOkMs |-> 0, lastErrorMs |-> 0, lastError |-> Ok,
    consecutiveFailures |-> 0, totalFailures |-> 0, totalSuccess |-> 0,
    conversionStarted |-> FALSE, conversionReady |-> FALSE,
    conversionStartMs |-> 0, lastRawValue |-> 0 ]

----------------------------------------------------------------------------
(* Anonymous-namespace helpers, ADS1115.cpp lines 16-89 *)

isValidMux(mux) == mux <= 7
isValidGain(gain) == gain <= 5
isValidDataRate(rate) == rate <= 7
isValidMode(mode) == mode <= 1
isValidCompMode(mode) == mode <= 1
isValidCompPolarity(polarity) == polarity <= 1
isValidCompLatch(latch) == latch <= 1
isValidCompQueue(queue) == queue <= 3

isAlertRdyModeConfigured(cfg) ==
  /\ cfg.compThresholdLow = 0
  /\ cfg.compThresholdHigh = ToInt16(32768)
  /\ cfg.compQueue = ASSERT_1
  /\ cfg.compMode = TRADITIONAL
  /\ cfg.compLatch = NON_LATCHING

isAlertRdyPinConfigured(cfg) == cfg.alertRdyPin >= 0 /\ cfg.gpioRead

\* a choice of the ready pin that does not look at the comparator fields
useAlertRdyPinAnyMode(cfg) == isAlertRdyPinConfigured(cfg)

useAlertRdyPin(cfg) == isAlertRdyPinConfigured(cfg) /\ isAlertRdyModeConfigured(cfg)

\* the level is the answer of cfg.gpioRead; the caller logs the invocation
isAlertRdyAsserted(cfg, level) ==
  IF ~useAlertRdyPin(cfg) THEN FALSE
  ELSE IF cfg.compPolarity = ACTIVE_HIGH THEN level ELSE ~level

isValidConfigValue(config) ==
  /\ Field(config, BIT_MUX, 3) <= 7
  /\ Field(config, BIT_PGA, 3) <= 5
  /\ Field(config, BIT_MODE, 1) <= 1
  /\ Field(config, BIT_DR, 3) <= 7
  /\ Field(config, BIT_COMP_MODE, 1) <= 1
  /\ Field(config, BIT_COMP_POL, 1) <= 1
  /\ Field(config, BIT_COMP_LAT, 1) <= 1
  /\ Field(config, BIT_COMP_QUE, 2) <= 3

----------------------------------------------------------------------------
(* Utility *)

timeTable == <<130, 68, 37, 21, 10, 6, 4, 3>>

getConversionTimeMs(d) ==
  LET index == IF d.config.dataRate >= Len(timeTable) THEN 4 ELSE d.config.dataRate
  IN timeTable[index + 1]

\* (static_cast<uint16_t>(x) << bit) & mask, the mask covering width bits at bit
Shifted(x, bit, width) == (x % (2 ^ width)) * (2 ^ bit)

\* a config word built without the comparator latch field
buildConfigRegisterNoLatch(d) ==
  Shifted(d.config.mux, BIT_MUX, 3) + Shifted(d.config.gain, BIT_PGA, 3)
  + Shifted(d.config.mode, BIT_MODE, 1) + Shifted(d.config.dataRate, BIT_DR, 3)
  + Shifted(d.config.compMode, BIT_COMP_MODE, 1)
  + Shifted(d.config.compPolarity, BIT_COMP_POL, 1)
  + Shifted(d.config.compQueue, BIT_COMP_QUE, 2)

buildConfigRegister(d) ==
  Shifted(d.config.mux, BIT_MUX, 3) + Shifted(d.config.gain, BIT_PGA, 3)
  + Shifted(d.config.mode, BIT_MODE, 1) + Shifted(d.config.dataRate, BIT_DR, 3)
  + Shifted(d.config.compMode, BIT_COMP_MODE, 1)
  + Shifted(d.config.compPolarity, BIT_COMP_POL, 1)
  + Shifted(d.config.compLatch, BIT_COMP_LAT, 1)
  + Shifted(d.config.compQueue, BIT_COMP_QUE, 2)

----------------------------------------------------------------------------
(* Health tracking, ADS1115.cpp lines 751-785 *)

\* a health update that abandons the conversion session when the device goes offline
updateHealthAbandon(d, st, nowMs) ==
  IF ok(st) \/ inProgress(st)
  THEN [d EXCEPT !.lastOkMs = nowMs,
                 !.consecutiveFailures = 0,
                 !.totalSuccess = SatInc32(@),
                 !.driverState = IF d.initialized THEN "READY" ELSE @]
  ELSE LET cf == IF d.consecutiveFailures < UINT8_MAX
                 THEN d.consecutiveFailures + 1 ELSE d.consecutiveFailures
           offline == d.initialized /\ cf >= d.config.offlineThreshold
       IN [d EXCEPT !.lastErrorMs = nowMs,
                    !.lastError = st,
                    !.consecutiveFailures = cf,
                    !.totalFailures = SatInc32(@),
                    !.conversionStarted = IF offline THEN FALSE ELSE @,
                    !.conversionReady = IF offline THEN FALSE ELSE @,
                    !.driverState =
                       IF d.initialized
                       THEN (IF offline THEN "OFFLINE" ELSE "DEGRADED")
                       ELSE @]

\* a health update whose counters wrap around: x++ on uint8 and on uint32
updateHealthWrap(d, st, nowMs) ==
  IF ok(st) \/ inProgress(st)
  THEN [d EXCEPT !.lastOkMs = nowMs,
                 !.consecutiveFailures = 0,
                 !.totalSuccess = Add32(@, 1),
                 !.driverState = IF d.initialized THEN "READY" ELSE @]
  ELSE LET cf == (d.consecutiveFailures + 1) % (UINT8_MAX + 1)
       IN [d EXCEPT !.lastErrorMs = nowMs,
                    !.lastError = st,
                    !.consecutiveFailures = cf,
                    !.totalFailures = Add32(@, 1),
                    !.driverState =
                       IF d.initialized
                       THEN (IF cf >= d.config.offlineThreshold THEN "OFFLINE" ELSE "DEGRADED")
                       ELSE @]

\* a health update that sets the DriverState whether or not the driver is initialized
updateHealthAlways(d, st, nowMs) ==
  IF ok(st) \/ inProgress(st)
  THEN [d EXCEPT !.lastOkMs = nowMs,
                 !.consecutiveFailures = 0,
                 !.totalSuccess = SatInc32(@),
                 !.driverState = "READY"]
  ELSE LET cf == IF d.consecutiveFailures < UINT8_MAX
                 THEN d.consecutiveFailures + 1 ELSE d.consecutiveFailures
       IN [d EXCEPT !.lastErrorMs = nowMs,
                    !.lastError = st,
                    !.consecutiveFailures = cf,
                    !.totalFailures = SatInc32(@),
                    !.driverState =
                       IF cf >= d.config.offlineThreshold THEN "OFFLINE" ELSE "DEGRADED"]

\* a health update that goes OFFLINE one failure late
updateHealthLate(d, st, nowMs) ==
  IF ok(st) \/ inProgress(st)
  THEN [d EXCEPT !.lastOkMs = nowMs,
                 !.consecutiveFailures = 0,
                 !.totalSuccess = SatInc32(@),
                 !.driverState = IF d.initialized THEN "READY" ELSE @]
  ELSE LET cf == IF d.consecutiveFailures < UINT8_MAX
                 THEN d.consecutiveFailures + 1 ELSE d.consecutiveFailures
       IN [d EXCEPT !.lastErrorMs = nowMs,
                    !.lastError = st,
                    !.consecutiveFailures = cf,
                    !.totalFailures = SatInc32(@),
                    !.driverState =
                       IF d.initialized
                       THEN (IF cf > d.config.offlineThreshold THEN "OFFLINE" ELSE "DEGRADED")
                       ELSE @]

\* a health update whose success halves the failure count instead of clearing it
updateHealthHalf(d, st, nowMs) ==
  IF ok(st) \/ inProgress(st)
  THEN LET cf == d.consecutiveFailures \div 2
       IN [d EXCEPT !.lastOkMs = nowMs,
                    !.consecutiveFailures = cf,
                    !.totalSuccess = SatInc32(@),
                    !.driverState =
                       IF d.initialized
                       THEN (IF cf = 0 THEN "READY" ELSE "DEGRADED")
                       ELSE @]
  ELSE LET cf == IF d.consecutiveFailures < UINT8_MAX
                 THEN d.consecutiveFailures + 1 ELSE d.consecutiveFailures
       IN [d EXCEPT !.lastErrorMs = nowMs,
                    !.lastError = st,
                    !.consecutiveFailures = cf,
                    !.totalFailures = SatInc32(@),
                    !.driverState =
                       IF d.initialized
                       THEN (IF cf >= d.config.offlineThreshold THEN "OFFLINE" ELSE "DEGRADED")
                       ELSE @]

updateHealth(d, st, nowMs) ==
  IF ok(st) \/ inProgress(st)
  THEN [d EXCEPT !.lastOkMs = nowMs,
                 !.consecutiveFailures = 0,
                 !.totalSuccess = SatInc32(@),
                 !.driverState = IF d.initialized THEN "READY" ELSE @]
  ELSE LET cf == IF d.consecutiveFailures < UINT8_MAX
                 THEN d.consecutiveFailures + 1 ELSE d.consecutiveFailures
       IN [d EXCEPT !.lastErrorMs = nowMs,
                    !.lastError = st,
                    !.consecutiveFailures = cf,
                    !.totalFailures = SatInc32(@),
                    !.driverState =
                       IF d.initialized
                       THEN (IF cf >= d.config.offlineThreshold THEN "OFFLINE" ELSE "DEGRADED")
                       ELSE @]

----------------------------------------------------------------------------
(***************************************************************************)
(* Transport wrappers, ADS1115.cpp lines 679-712.                          *)
(* A context c carries the driver record c.d, the answers c.io the         *)
(* callbacks will give, in order, and the log c.calls of the invocations   *)
(* made so far.  An answer is [st, data]: the Status the callback returns  *)
(* and, for a read, the 16-bit register value it delivers.                 *)
(***************************************************************************)

Ctx(d, io) == [d |-> d, io |-> io, calls |-> <<>>, starved |-> FALSE, write |-> FALSE]

\* the next answer; a context whose answers ran out is marked starved (such a
\* run is discarded: it only tells that the call needs one more answer, and
\* whether the callback that asks for it is the write callback)
NextAnswer(c) == IF c.io = <<>> THEN [st |-> Ok, data |-> 0] ELSE Head(c.io)

Consume(c, write) ==
  IF c.io = <<>> THEN [c EXCEPT !.starved = TRUE, !.write = write]
  ELSE [c EXCEPT !.io = Tail(@)]

Call(fn, reg, value, st) ==
  [fn |-> fn, reg |-> reg, value |-> value, st |-> st, tracked |-> FALSE]

i2cWriteReadRaw(c, reg) ==
  IF ~c.d.config.i2cWriteRead
  THEN [c |-> c, st |-> Error("INVALID_CONFIG", 0), data |-> 0]
  ELSE LET r == NextAnswer(c)
       IN [c |-> [Consume(c, FALSE) EXCEPT
                    !.calls = Append(@, Call("i2cWriteRead", reg, r.data, r.st))],
           st |-> r.st, data |-> r.data]

i2cWriteRaw(c, reg, value) ==
  IF ~c.d.config.i2cWrite
  THEN [c |-> c, st |-> Error("INVALID_CONFIG", 0)]
  ELSE LET r == NextAnswer(c)
       IN [c |-> [Consume(c, TRUE) EXCEPT
                    !.calls = Append(@, Call("i2cWrite", reg, value, r.st))],
           st |-> r.st]

\* the tracked wrappers mark the invocation they made as tracked in the log
MarkTracked(c) ==
  IF c.calls = <<>> THEN c
  ELSE [c EXCEPT !.calls[Len(c.calls)].tracked = TRUE]

i2cWriteReadTracked(c, reg, nowMs) ==
  LET r == i2cWriteReadRaw(c, reg)
      t == MarkTracked(r.c)
  IN IF r.st.code = "INVALID_CONFIG" \/ r.st.code = "INVALID_PARAM"
     THEN [r EXCEPT !.c = t]
     ELSE [r EXCEPT !.c = [t EXCEPT !.d = updateHealth(t.d, r.st, nowMs)]]

\* a tracked write that also counts the validation results of the transport
i2cWriteTrackedAll(c, reg, value, nowMs) ==
  LET r == i2cWriteRaw(c, reg, value)
      t == MarkTracked(r.c)
  IN [r EXCEPT !.c = [t EXCEPT !.d = updateHealth(t.d, r.st, nowMs)]]

i2cWriteTracked(c, reg, value, nowMs) ==
  LET r == i2cWriteRaw(c, reg, value)
      t == MarkTracked(r.c)
  IN IF r.st.code = "INVALID_CONFIG" \/ r.st.code = "INVALID_PARAM"
     THEN [r EXCEPT !.c = t]
     ELSE [r EXCEPT !.c = [t EXCEPT !.d = updateHealth(t.d, r.st, nowMs)]]

(* Register access, ADS1115.cpp lines 718-745 *)

\* a register read that uses the raw path
readRegister16Untracked(c, reg, nowMs) ==
  LET r == i2cWriteReadRaw(c, reg)
  IN IF ~ok(r.st) THEN [c |-> r.c, st |-> r.st, value |-> 0]
     ELSE [c |-> r.c, st |-> Ok, value |-> r.data]

readRegister16(c, reg, nowMs) ==
  LET r == i2cWriteReadTracked(c, reg, nowMs)
  IN IF ~ok(r.st) THEN [c |-> r.c, st |-> r.st, value |-> 0]
     ELSE [c |-> r.c, st |-> Ok, value |-> r.data]

writeRegister16(c, reg, value, nowMs) == i2cWriteTracked(c, reg, value, nowMs)

readRegister16Raw(c, reg) ==
  LET r == i2cWriteReadRaw(c, reg)
  IN IF ~ok(r.st) THEN [c |-> r.c, st |-> r.st, value |-> 0]
     ELSE [c |-> r.c, st |-> Ok, value |-> r.data]

----------------------------------------------------------------------------
(* Internal, ADS1115.cpp lines 791-810 *)

\* an _applyConfig that writes the high threshold before the low one
applyConfigHighFirst(c, nowMs) ==
  LET w1 == writeRegister16(c, REG_HI_THRESH, ToUint16(c.d.config.compThresholdHigh), nowMs)
  IN IF ~ok(w1.st) THEN w1
     ELSE LET w2 == writeRegister16(w1.c, REG_LO_THRESH,
                                    ToUint16(w1.c.d.config.compThresholdLow), nowMs)
          IN IF ~ok(w2.st) THEN w2
             ELSE LET w3 == writeRegister16(w2.c, REG_CONFIG,
                                            buildConfigRegister(w2.c.d), nowMs)
                  IN IF ~ok(w3.st) THEN w3
                     ELSE [c |-> [w3.c EXCEPT !.d.conversionStarted = FALSE,
                                              !.d.conversionReady = FALSE],
                           st |-> Ok]

\* an _applyConfig that leaves the conversion session as it is
applyConfigKeep(c, nowMs) ==
  LET w1 == writeRegister16(c, REG_LO_THRESH, ToUint16(c.d.config.compThresholdLow), nowMs)
  IN IF ~ok(w1.st) THEN w1
     ELSE LET w2 == writeRegister16(w1.c, REG_HI_THRESH,
                                    ToUint16(w1.c.d.config.compThresholdHigh), nowMs)
          IN IF ~ok(w2.st) THEN w2
             ELSE writeRegister16(w2.c, REG_CONFIG, buildConfigRegister(w2.c.d), nowMs)

applyConfig(c, nowMs) ==
  LET w1 == writeRegister16(c, REG_LO_THRESH, ToUint16(c.d.config.compThresholdLow), nowMs)
  IN IF ~ok(w1.st) THEN w1
     ELSE LET w2 == writeRegister16(w1.c, REG_HI_THRESH,
                                    ToUint16(w1.c.d.config.compThresholdHigh), nowMs)
          IN IF ~ok(w2.st) THEN w2
             ELSE LET w3 == writeRegister16(w2.c, REG_CONFIG,
                                            buildConfigRegister(w2.c.d), nowMs)
                  IN IF ~ok(w3.st) THEN w3
                     ELSE [c |-> [w3.c EXCEPT !.d.conversionStarted = FALSE,
                                              !.d.conversionReady = FALSE],
                           st |-> Ok]

----------------------------------------------------------------------------
(* Diagnostics, ADS1115.cpp lines 189-208 *)

\* a probe that reports every failed read as DEVICE_NOT_FOUND, without the detail
probeFlat(c) ==
  LET r == readRegister16Raw(c, REG_CONFIG)
  IN IF ~ok(r.st) THEN [c |-> r.c, st |-> Error("DEVICE_NOT_FOUND", 0)]
     ELSE [c |-> r.c, st |-> Ok]

\* a probe that reads through the tracked path
probeTracked(c) ==
  LET r == readRegister16(c, REG_CONFIG, c.d.lastOkMs)
  IN IF ~ok(r.st)
     THEN IF r.st.code = "INVALID_CONFIG" \/ r.st.code = "INVALID_PARAM"
          THEN [c |-> r.c, st |-> r.st]
          ELSE [c |-> r.c, st |-> Error("DEVICE_NOT_FOUND", r.st.detail)]
     ELSE [c |-> r.c, st |-> Ok]

probe(c) ==
  LET r == readRegister16Raw(c, REG_CONFIG)
  IN IF ~ok(r.st)
     THEN IF r.st.code = "INVALID_CONFIG" \/ r.st.code = "INVALID_PARAM"
          THEN [c |-> r.c, st |-> r.st]
          ELSE [c |-> r.c, st |-> Error("DEVICE_NOT_FOUND", r.st.detail)]
     ELSE [c |-> r.c, st |-> Ok]

\* a recover that reads the config register on the raw path
recoverRaw(c, nowMs) ==
  IF ~c.d.initialized THEN [c |-> c, st |-> Error("NOT_INITIALIZED", 0)]
  ELSE LET r == readRegister16Raw(c, REG_CONFIG)
       IN [c |-> r.c, st |-> r.st]

\* a recover that declares the driver READY whatever the read returns
recoverForced(c, nowMs) ==
  IF ~c.d.initialized THEN [c |-> c, st |-> Error("NOT_INITIALIZED", 0)]
  ELSE LET r == readRegister16(c, REG_CONFIG, nowMs)
       IN [c |-> [r.c EXCEPT !.d.driverState = "READY"], st |-> r.st]

recover(c, nowMs) ==
  IF ~c.d.initialized THEN [c |-> c, st |-> Error("NOT_INITIALIZED", 0)]
  ELSE LET r == readRegister16(c, REG_CONFIG, nowMs)
       IN [c |-> r.c, st |-> r.st]

----------------------------------------------------------------------------
(* Lifecycle, ADS1115.cpp lines 97-183 *)

\* lines 98-111: the config is stored and every other field is reset
beginReset(d, config) ==
  [ config |-> config,
    initialized |-> FALSE,
    driverState |-> "UNINIT",
    conversionStarted |-> FALSE, conversionReady |-> FALSE,
    conversionStartMs |-> 0, lastRawValue |-> 0,
    lastOkMs |-> 0, lastErrorMs |-> 0, lastError |-> Ok,
    consecutiveFailures |-> 0, totalFailures |-> 0, totalSuccess |-> 0 ]

\* a validation that tests the callbacks, the timeout and the address only
beginValidBus(cfg) ==
  /\ cfg.i2cWrite /\ cfg.i2cWriteRead
  /\ cfg.i2cTimeoutMs # 0
  /\ ~(cfg.i2cAddress < kMinAddress \/ cfg.i2cAddress > kMaxAddress)

\* lines 113-133
beginValid(cfg) ==
  /\ cfg.i2cWrite /\ cfg.i2cWriteRead
  /\ cfg.i2cTimeoutMs # 0
  /\ ~(cfg.i2cAddress < kMinAddress \/ cfg.i2cAddress > kMaxAddress)
  /\ isValidMux(cfg.mux) /\ isValidGain(cfg.gain)
  /\ isValidDataRate(cfg.dataRate) /\ isValidMode(cfg.mode)
  /\ isValidCompMode(cfg.compMode) /\ isValidCompPolarity(cfg.compPolarity)
  /\ isValidCompLatch(cfg.compLatch) /\ isValidCompQueue(cfg.compQueue)
  /\ ~(cfg.alertRdyPin < -1)
  /\ ~(cfg.alertRdyPin >= 0 /\ ~cfg.gpioRead)

\* a begin that stores the offlineThreshold as it was passed
beginNoClamp(c, config, nowMs) ==
  LET c0 == [c EXCEPT !.d = beginReset(c.d, config)]
  IN IF ~beginValid(config) THEN [c |-> c0, st |-> Error("INVALID_CONFIG", 0)]
     ELSE LET p == probe(c0)
          IN IF ~ok(p.st) THEN p
             ELSE LET a == applyConfig(p.c, nowMs)
                  IN IF ~ok(a.st) THEN a
                     ELSE [c |-> [a.c EXCEPT !.d.initialized = TRUE,
                                             !.d.driverState = "READY"],
                           st |-> Ok]

\* a begin that marks the driver initialized before the configuration is applied
beginEager(c, config, nowMs) ==
  LET c0 == [c EXCEPT !.d = beginReset(c.d, config)]
  IN IF ~beginValid(config) THEN [c |-> c0, st |-> Error("INVALID_CONFIG", 0)]
     ELSE LET c1 == [c0 EXCEPT !.d.config.offlineThreshold = IF @ = 0 THEN 1 ELSE @]
              p == probe(c1)
          IN IF ~ok(p.st) THEN p
             ELSE applyConfig([p.c EXCEPT !.d.initialized = TRUE,
                                          !.d.driverState = "READY"], nowMs)

begin(c, config, nowMs) ==
  LET c0 == [c EXCEPT !.d = beginReset(c.d, config)]
  IN IF ~beginValid(config) THEN [c |-> c0, st |-> Error("INVALID_CONFIG", 0)]
     ELSE LET c1 == [c0 EXCEPT !.d.config.offlineThreshold = IF @ = 0 THEN 1 ELSE @]
              p == probe(c1)
          IN IF ~ok(p.st) THEN p
             ELSE LET a == applyConfig(p.c, nowMs)
                  IN IF ~ok(a.st) THEN a
                     ELSE [c |-> [a.c EXCEPT !.d.initialized = TRUE,
                                             !.d.driverState = "READY"],
                           st |-> Ok]

\* an end that also clears the failure counters
endClearHealth(c) ==
  [c |-> [c EXCEPT !.d.initialized = FALSE,
                   !.d.driverState = "UNINIT",
                   !.d.conversionStarted = FALSE,
                   !.d.conversionReady = FALSE,
                   !.d.consecutiveFailures = 0,
                   !.d.totalFailures = 0],
   st |-> St("void", 0)]

\* an end that leaves the conversion session as it is
endKeepSession(c) ==
  [c |-> [c EXCEPT !.d.initialized = FALSE,
                   !.d.driverState = "UNINIT"],
   st |-> St("void", 0)]

end(c) ==
  [c |-> [c EXCEPT !.d.initialized = FALSE,
                   !.d.driverState = "UNINIT",
                   !.d.conversionStarted = FALSE,
                   !.d.conversionReady = FALSE],
   st |-> St("void", 0)]

----------------------------------------------------------------------------
(* Conversion API, ADS1115.cpp lines 154-176 and 214-361 *)

\* (configReg & cmd::MASK_OS)
MaskOs(configReg) == Field(configReg, BIT_OS, 1) * (2 ^ BIT_OS)

\* one invocation of cfg.gpioRead(cfg.alertRdyPin, cfg.gpioUser), answering level
LogGpio(c, level) ==
  [c EXCEPT !.calls = Append(@, Call("gpioRead", c.d.config.alertRdyPin,
                                     IF level THEN 1 ELSE 0, Ok))]

\* a readiness mark that leaves the started flag set
MarkReadyOnly(c) == [c EXCEPT !.d.conversionReady = TRUE]

\* _conversionStarted = false; _conversionReady = true;
MarkReady(c) == [c EXCEPT !.d.conversionStarted = FALSE, !.d.conversionReady = TRUE]

\* a tick that checks a pending conversion without waiting for the conversion time
tickEager(c, nowMs, clock, level) ==
  IF ~c.d.initialized THEN [c |-> c, st |-> St("void", 0)]
  ELSE IF c.d.config.mode = SINGLE_SHOT /\ c.d.conversionStarted /\ ~c.d.conversionReady
  THEN IF useAlertRdyPin(c.d.config)
       THEN [c |-> IF isAlertRdyAsserted(c.d.config, level)
                   THEN MarkReady(LogGpio(c, level)) ELSE LogGpio(c, level),
             st |-> St("void", 0)]
       ELSE LET r == readRegister16(c, REG_CONFIG, clock)
            IN [c |-> IF ok(r.st) /\ MaskOs(r.value) = OS_IDLE
                      THEN MarkReady(r.c) ELSE r.c,
                st |-> St("void", 0)]
  ELSE [c |-> c, st |-> St("void", 0)]

\* a tick that gives the conversion up when its poll of the config register fails
tickAbandon(c, nowMs, clock, level) ==
  IF ~c.d.initialized THEN [c |-> c, st |-> St("void", 0)]
  ELSE IF c.d.config.mode = SINGLE_SHOT /\ c.d.conversionStarted /\ ~c.d.conversionReady
  THEN IF ~ULess32(Sub32(nowMs, c.d.conversionStartMs), getConversionTimeMs(c.d))
       THEN IF useAlertRdyPin(c.d.config)
            THEN [c |-> IF isAlertRdyAsserted(c.d.config, level)
                        THEN MarkReady(LogGpio(c, level)) ELSE LogGpio(c, level),
                  st |-> St("void", 0)]
            ELSE LET r == readRegister16(c, REG_CONFIG, clock)
                 IN [c |-> IF ok(r.st)
                           THEN (IF MaskOs(r.value) = OS_IDLE THEN MarkReady(r.c) ELSE r.c)
                           ELSE [r.c EXCEPT !.d.conversionStarted = FALSE],
                     st |-> St("void", 0)]
       ELSE [c |-> c, st |-> St("void", 0)]
  ELSE [c |-> c, st |-> St("void", 0)]

\* nowMs is the argument of tick, clock the value of millis()
tick(c, nowMs, clock, level) ==
  IF ~c.d.initialized THEN [c |-> c, st |-> St("void", 0)]
  ELSE IF c.d.config.mode = SINGLE_SHOT /\ c.d.conversionStarted /\ ~c.d.conversionReady
  THEN IF ~ULess32(Sub32(nowMs, c.d.conversionStartMs), getConversionTimeMs(c.d))
       THEN IF useAlertRdyPin(c.d.config)
            THEN [c |-> IF isAlertRdyAsserted(c.d.config, level)
                        THEN MarkReady(LogGpio(c, level)) ELSE LogGpio(c, level),
                  st |-> St("void", 0)]
            ELSE LET r == readRegister16(c, REG_CONFIG, clock)
                 IN [c |-> IF ok(r.st) /\ MaskOs(r.value) = OS_IDLE
                           THEN MarkReady(r.c) ELSE r.c,
                     st |-> St("void", 0)]
       ELSE [c |-> c, st |-> St("void", 0)]
  ELSE [c |-> c, st |-> St("void", 0)]

\* lines 225-234 and 254-264: the start write and what follows it
startWrite(c, prevMux, clock) ==
  LET w == writeRegister16(c, REG_CONFIG, buildConfigRegister(c.d) + OS_START, clock)
  IN IF ~ok(w.st)
     THEN [c |-> [w.c EXCEPT !.d.config.mux = prevMux], st |-> w.st]
     ELSE [c |-> [w.c EXCEPT !.d.conversionStarted = TRUE,
                             !.d.conversionReady = FALSE,
                             !.d.conversionStartMs = clock],
           st |-> St("IN_PROGRESS", 0)]

\* a startConversion that does not look at the pending conversion
startConversionAgain(c, clock) ==
  IF ~c.d.initialized THEN [c |-> c, st |-> Error("NOT_INITIALIZED", 0)]
  ELSE IF c.d.config.mode = CONTINUOUS THEN [c |-> c, st |-> Error("BUSY", 0)]
  ELSE startWrite(c, c.d.config.mux, clock)

startConversion(c, clock) ==
  IF ~c.d.initialized THEN [c |-> c, st |-> Error("NOT_INITIALIZED", 0)]
  ELSE IF c.d.config.mode = CONTINUOUS THEN [c |-> c, st |-> Error("BUSY", 0)]
  ELSE IF c.d.conversionStarted THEN [c |-> c, st |-> Error("BUSY", 0)]
  ELSE startWrite(c, c.d.config.mux, clock)

\* a startConversion(mux) that keeps the new mux when the start write fails
startConversionMuxKeep(c, mux, clock) ==
  IF ~c.d.initialized THEN [c |-> c, st |-> Error("NOT_INITIALIZED", 0)]
  ELSE IF ~isValidMux(mux) THEN [c |-> c, st |-> Error("INVALID_PARAM", 0)]
  ELSE IF c.d.config.mode = CONTINUOUS THEN [c |-> c, st |-> Error("BUSY", 0)]
  ELSE IF c.d.conversionStarted THEN [c |-> c, st |-> Error("BUSY", 0)]
  ELSE startWrite([c EXCEPT !.d.config.mux = mux], mux, clock)

startConversionMux(c, mux, clock) ==
  IF ~c.d.initialized THEN [c |-> c, st |-> Error("NOT_INITIALIZED", 0)]
  ELSE IF ~isValidMux(mux) THEN [c |-> c, st |-> Error("INVALID_PARAM", 0)]
  ELSE IF c.d.config.mode = CONTINUOUS THEN [c |-> c, st |-> Error("BUSY", 0)]
  ELSE IF c.d.conversionStarted THEN [c |-> c, st |-> Error("BUSY", 0)]
  ELSE startWrite([c EXCEPT !.d.config.mux = mux], c.d.config.mux, clock)

\* a conversionReady that polls the device again although a result is ready
conversionReadyPoll(c, clock, level) ==
  IF ~c.d.initialized THEN [c |-> c, st |-> St("false", 0)]
  ELSE IF c.d.config.mode = CONTINUOUS THEN [c |-> c, st |-> St("true", 0)]
  ELSE IF ~c.d.conversionStarted /\ ~c.d.conversionReady THEN [c |-> c, st |-> St("false", 0)]
  ELSE IF useAlertRdyPin(c.d.config)
  THEN IF isAlertRdyAsserted(c.d.config, level)
       THEN [c |-> MarkReady(LogGpio(c, level)), st |-> St("true", 0)]
       ELSE [c |-> LogGpio(c, level), st |-> St("false", 0)]
  ELSE LET r == readRegister16(c, REG_CONFIG, clock)
       IN IF ~ok(r.st) THEN [c |-> r.c, st |-> St("false", 0)]
          ELSE IF MaskOs(r.value) = OS_IDLE
               THEN [c |-> MarkReady(r.c), st |-> St("true", 0)]
               ELSE [c |-> r.c, st |-> St("false", 0)]

\* a conversionReady that polls without waiting for the conversion time
conversionReadyNoWait(c, clock, level) ==
  IF ~c.d.initialized THEN [c |-> c, st |-> St("false", 0)]
  ELSE IF c.d.config.mode = CONTINUOUS THEN [c |-> c, st |-> St("true", 0)]
  ELSE IF c.d.conversionReady THEN [c |-> c, st |-> St("true", 0)]
  ELSE IF ~c.d.conversionStarted THEN [c |-> c, st |-> St("false", 0)]
  ELSE IF useAlertRdyPin(c.d.config)
  THEN IF isAlertRdyAsserted(c.d.config, level)
       THEN [c |-> MarkReady(LogGpio(c, level)), st |-> St("true", 0)]
       ELSE [c |-> LogGpio(c, level), st |-> St("false", 0)]
  ELSE LET r == readRegister16(c, REG_CONFIG, clock)
       IN IF ~ok(r.st) THEN [c |-> r.c, st |-> St("false", 0)]
          ELSE IF MaskOs(r.value) = OS_IDLE
               THEN [c |-> MarkReady(r.c), st |-> St("true", 0)]
               ELSE [c |-> r.c, st |-> St("false", 0)]

\* the bool result is returned as the code "true" or "false"
conversionReady(c, clock, level) ==
  IF ~c.d.initialized THEN [c |-> c, st |-> St("false", 0)]
  ELSE IF c.d.config.mode = CONTINUOUS THEN [c |-> c, st |-> St("true", 0)]
  ELSE IF c.d.conversionReady THEN [c |-> c, st |-> St("true", 0)]
  ELSE IF ~c.d.conversionStarted THEN [c |-> c, st |-> St("false", 0)]
  ELSE IF useAlertRdyPin(c.d.config)
  THEN IF ULess32(Sub32(clock, c.d.conversionStartMs), getConversionTimeMs(c.d))
       THEN [c |-> c, st |-> St("false", 0)]
       ELSE IF isAlertRdyAsserted(c.d.config, level)
            THEN [c |-> MarkReady(LogGpio(c, level)), st |-> St("true", 0)]
            ELSE [c |-> LogGpio(c, level), st |-> St("false", 0)]
  ELSE IF ULess32(Sub32(clock, c.d.conversionStartMs), getConversionTimeMs(c.d))
       THEN [c |-> c, st |-> St("false", 0)]
       ELSE LET r == readRegister16(c, REG_CONFIG, clock)
            IN IF ~ok(r.st) THEN [c |-> r.c, st |-> St("false", 0)]
               ELSE IF MaskOs(r.value) = OS_IDLE
                    THEN [c |-> MarkReady(r.c), st |-> St("true", 0)]
                    ELSE [c |-> r.c, st |-> St("false", 0)]

\* a read of the conversion register that gives up the conversion when it fails
readConversionConsume(c, clock) ==
  LET r == readRegister16(c, REG_CONVERSION, clock)
  IN IF ~ok(r.st) THEN [c |-> [r.c EXCEPT !.d.conversionReady = FALSE], st |-> r.st]
     ELSE [c |-> [r.c EXCEPT !.d.lastRawValue = ToInt16(r.value),
                             !.d.conversionReady =
                                IF r.c.d.config.mode = SINGLE_SHOT THEN FALSE ELSE @],
           st |-> Ok]

\* lines 347-360: the read of the conversion register
readConversion(c, clock) ==
  LET r == readRegister16(c, REG_CONVERSION, clock)
  IN IF ~ok(r.st) THEN [c |-> r.c, st |-> r.st]
     ELSE [c |-> [r.c EXCEPT !.d.lastRawValue = ToInt16(r.value),
                             !.d.conversionReady =
                                IF r.c.d.config.mode = SINGLE_SHOT THEN FALSE ELSE @],
           st |-> Ok]

readRaw(c, clock, level) ==
  IF ~c.d.initialized THEN [c |-> c, st |-> Error("NOT_INITIALIZED", 0)]
  ELSE IF c.d.config.mode = SINGLE_SHOT /\ ~c.d.conversionReady
  THEN IF c.d.conversionStarted
          /\ ULess32(Sub32(clock, c.d.conversionStartMs), getConversionTimeMs(c.d))
       THEN [c |-> c, st |-> Error("CONVERSION_NOT_READY", 0)]
       ELSE IF useAlertRdyPin(c.d.config)
            THEN IF ~isAlertRdyAsserted(c.d.config, level)
                 THEN [c |-> LogGpio(c, level), st |-> Error("CONVERSION_NOT_READY", 0)]
                 ELSE readConversion(MarkReady(LogGpio(c, level)), clock)
            ELSE LET r == readRegister16(c, REG_CONFIG, clock)
                 IN IF ~ok(r.st) THEN [c |-> r.c, st |-> r.st]
                    ELSE IF MaskOs(r.value) # OS_IDLE
                         THEN [c |-> r.c, st |-> Error("CONVERSION_NOT_READY", 0)]
                         ELSE readConversion(MarkReady(r.c), clock)
  ELSE readConversion(c, clock)

\* lines 363-371: the Status of readVoltage is the one of readRaw, the scaling of
\* the raw value changes no field
readVoltage(c, clock, level) == readRaw(c, clock, level)

----------------------------------------------------------------------------
(* Configuration, ADS1115.cpp lines 422-507 *)

\* a setMux that puts the previous mux back when the configuration is not written
setMuxRollback(c, mux, clock) ==
  IF ~c.d.initialized THEN [c |-> c, st |-> Error("NOT_INITIALIZED", 0)]
  ELSE IF ~isValidMux(mux) THEN [c |-> c, st |-> Error("INVALID_PARAM", 0)]
  ELSE LET a == applyConfig([c EXCEPT !.d.config.mux = mux], clock)
       IN IF ok(a.st) THEN a
          ELSE [c |-> [a.c EXCEPT !.d.config.mux = c.d.config.mux], st |-> a.st]

setMux(c, mux, clock) ==
  IF ~c.d.initialized THEN [c |-> c, st |-> Error("NOT_INITIALIZED", 0)]
  ELSE IF ~isValidMux(mux) THEN [c |-> c, st |-> Error("INVALID_PARAM", 0)]
  ELSE applyConfig([c EXCEPT !.d.config.mux = mux], clock)

setGain(c, gain, clock) ==
  IF ~c.d.initialized THEN [c |-> c, st |-> Error("NOT_INITIALIZED", 0)]
  ELSE IF ~isValidGain(gain) THEN [c |-> c, st |-> Error("INVALID_PARAM", 0)]
  ELSE applyConfig([c EXCEPT !.d.config.gain = gain], clock)

setDataRate(c, rate, clock) ==
  IF ~c.d.initialized THEN [c |-> c, st |-> Error("NOT_INITIALIZED", 0)]
  ELSE IF ~isValidDataRate(rate) THEN [c |-> c, st |-> Error("INVALID_PARAM", 0)]
  ELSE applyConfig([c EXCEPT !.d.config.dataRate = rate], clock)

\* a setMode that leaves the conversion session to _applyConfig
setModeKeep(c, mode, clock) ==
  IF ~c.d.initialized THEN [c |-> c, st |-> Error("NOT_INITIALIZED", 0)]
  ELSE IF ~isValidMode(mode) THEN [c |-> c, st |-> Error("INVALID_PARAM", 0)]
  ELSE applyConfig([c EXCEPT !.d.config.mode = mode], clock)

setMode(c, mode, clock) ==
  IF ~c.d.initialized THEN [c |-> c, st |-> Error("NOT_INITIALIZED", 0)]
  ELSE IF ~isValidMode(mode) THEN [c |-> c, st |-> Error("INVALID_PARAM", 0)]
  ELSE applyConfig([c EXCEPT !.d.config.mode = mode,
                             !.d.conversionStarted = FALSE,
                             !.d.conversionReady = FALSE], clock)

readConfig(c, clock) ==
  IF ~c.d.initialized THEN [c |-> c, st |-> Error("NOT_INITIALIZED", 0)]
  ELSE LET r == readRegister16(c, REG_CONFIG, clock)
       IN [c |-> r.c, st |-> r.st]

\* a writeConfig that takes the start bit for a started conversion in either mode
writeConfigStartAlways(c, config, clock) ==
  IF ~c.d.initialized THEN [c |-> c, st |-> Error("NOT_INITIALIZED", 0)]
  ELSE IF ~isValidConfigValue(config) THEN [c |-> c, st |-> Error("INVALID_PARAM", 0)]
  ELSE LET w == writeRegister16(c, REG_CONFIG, config, clock)
       IN IF ~ok(w.st) THEN w
          ELSE LET start == MaskOs(config) = OS_START
               IN [c |-> [w.c EXCEPT
                      !.d.config.mux = Field(config, BIT_MUX, 3),
                      !.d.config.gain = Field(config, BIT_PGA, 3),
                      !.d.config.mode = Field(config, BIT_MODE, 1),
                      !.d.config.dataRate = Field(config, BIT_DR, 3),
                      !.d.config.compMode = Field(config, BIT_COMP_MODE, 1),
                      !.d.config.compPolarity = Field(config, BIT_COMP_POL, 1),
                      !.d.config.compLatch = Field(config, BIT_COMP_LAT, 1),
                      !.d.config.compQueue = Field(config, BIT_COMP_QUE, 2),
                      !.d.conversionStarted = start,
                      !.d.conversionReady = FALSE,
                      !.d.conversionStartMs = IF start THEN clock ELSE @],
                   st |-> Ok]

writeConfig(c, config, clock) ==
  IF ~c.d.initialized THEN [c |-> c, st |-> Error("NOT_INITIALIZED", 0)]
  ELSE IF ~isValidConfigValue(config) THEN [c |-> c, st |-> Error("INVALID_PARAM", 0)]
  ELSE LET w == writeRegister16(c, REG_CONFIG, config, clock)
       IN IF ~ok(w.st) THEN w
          ELSE LET mode == Field(config, BIT_MODE, 1)
                   start == mode = SINGLE_SHOT /\ MaskOs(config) = OS_START
               IN [c |-> [w.c EXCEPT
                      !.d.config.mux = Field(config, BIT_MUX, 3),
                      !.d.config.gain = Field(config, BIT_PGA, 3),
                      !.d.config.mode = mode,
                      !.d.config.dataRate = Field(config, BIT_DR, 3),
                      !.d.config.compMode = Field(config, BIT_COMP_MODE, 1),
                      !.d.config.compPolarity = Field(config, BIT_COMP_POL, 1),
                      !.d.config.compLatch = Field(config, BIT_COMP_LAT, 1),
                      !.d.config.compQueue = Field(config, BIT_COMP_QUE, 2),
                      !.d.conversionStarted = start,
                      !.d.conversionReady = FALSE,
                      !.d.conversionStartMs = IF start THEN clock ELSE @],
                   st |-> Ok]

----------------------------------------------------------------------------
(* Comparator, ADS1115.cpp lines 513-616 *)

\* a setThresholds that does not look at the initialized flag
setThresholdsAnyTime(c, low, high, clock) ==
  LET c1 == [c EXCEPT !.d.config.compThresholdLow = low,
                      !.d.config.compThresholdHigh = high]
      w1 == writeRegister16(c1, REG_LO_THRESH, ToUint16(low), clock)
  IN IF ~ok(w1.st) THEN w1
     ELSE writeRegister16(w1.c, REG_HI_THRESH, ToUint16(high), clock)

setThresholds(c, low, high, clock) ==
  IF ~c.d.initialized THEN [c |-> c, st |-> Error("NOT_INITIALIZED", 0)]
  ELSE LET c1 == [c EXCEPT !.d.config.compThresholdLow = low,
                           !.d.config.compThresholdHigh = high]
           w1 == writeRegister16(c1, REG_LO_THRESH, ToUint16(low), clock)
       IN IF ~ok(w1.st) THEN w1
          ELSE writeRegister16(w1.c, REG_HI_THRESH, ToUint16(high), clock)

getThresholds(c, clock) ==
  IF ~c.d.initialized THEN [c |-> c, st |-> Error("NOT_INITIALIZED", 0)]
  ELSE LET r1 == readRegister16(c, REG_LO_THRESH, clock)
       IN IF ~ok(r1.st) THEN [c |-> r1.c, st |-> r1.st]
          ELSE LET r2 == readRegister16(r1.c, REG_HI_THRESH, clock)
               IN IF ~ok(r2.st) THEN [c |-> r2.c, st |-> r2.st]
                  ELSE [c |-> [r2.c EXCEPT
                                 !.d.config.compThresholdLow = ToInt16(r1.value),
                                 !.d.config.compThresholdHigh = ToInt16(r2.value)],
                        st |-> Ok]

setComparatorMode(c, mode, clock) ==
  IF ~c.d.initialized THEN [c |-> c, st |-> Error("NOT_INITIALIZED", 0)]
  ELSE IF ~isValidCompMode(mode) THEN [c |-> c, st |-> Error("INVALID_PARAM", 0)]
  ELSE applyConfig([c EXCEPT !.d.config.compMode = mode], clock)

setComparatorPolarity(c, polarity, clock) ==
  IF ~c.d.initialized THEN [c |-> c, st |-> Error("NOT_INITIALIZED", 0)]
  ELSE IF ~isValidCompPolarity(polarity) THEN [c |-> c, st |-> Error("INVALID_PARAM", 0)]
  ELSE applyConfig([c EXCEPT !.d.config.compPolarity = polarity], clock)

setComparatorLatch(c, latch, clock) ==
  IF ~c.d.initialized THEN [c |-> c, st |-> Error("NOT_INITIALIZED", 0)]
  ELSE IF ~isValidCompLatch(latch) THEN [c |-> c, st |-> Error("INVALID_PARAM", 0)]
  ELSE applyConfig([c EXCEPT !.d.config.compLatch = latch], clock)

setComparatorQueue(c, queue, clock) ==
  IF ~c.d.initialized THEN [c |-> c, st |-> Error("NOT_INITIALIZED", 0)]
  ELSE IF ~isValidCompQueue(queue) THEN [c |-> c, st |-> Error("INVALID_PARAM", 0)]
  ELSE applyConfig([c EXCEPT !.d.config.compQueue = queue], clock)

enableConversionReadyPin(c, clock) ==
  IF ~c.d.initialized THEN [c |-> c, st |-> Error("NOT_INITIALIZED", 0)]
  ELSE applyConfig([c EXCEPT !.d.config.compThresholdLow = 0,
                             !.d.config.compThresholdHigh = ToInt16(32768),
                             !.d.config.compQueue = ASSERT_1,
                             !.d.config.compMode = TRADITIONAL,
                             !.d.config.compLatch = NON_LATCHING], clock)

disableComparator(c, clock) ==
  IF ~c.d.initialized THEN [c |-> c, st |-> Error("NOT_INITIALIZED", 0)]
  ELSE applyConfig([c EXCEPT !.d.config.compQueue = DISABLE], clock)

----------------------------------------------------------------------------
(* readBlocking, ADS1115.cpp lines 373-406.  The call up to the polling    *)
(* loop is readBlockingEnter; the loop is walked one test at a time: the   *)
(* while condition (line 390) and the body (lines 391-402) each read       *)
(* millis() for themselves, and the clock may advance in between.          *)

NoLoop == [timeoutMs |-> 0, deadlineMs |-> 0, readyAtMs |-> 0, whileMs |-> 0, nowMs |-> 0]

\* a readBlocking that measures its deadline and ready time from the time of the call
readBlockingEnterFromCall(c, timeoutMs, clock, level) ==
  IF ~c.d.initialized
  THEN [c |-> c, st |-> Error("NOT_INITIALIZED", 0), loop |-> FALSE, rb |-> NoLoop]
  ELSE IF c.d.config.mode = CONTINUOUS
  THEN LET r == readRaw(c, clock, level)
       IN [c |-> r.c, st |-> r.st, loop |-> FALSE, rb |-> NoLoop]
  ELSE LET s == startConversion(c, clock)
       IN IF ~(s.st.code = "IN_PROGRESS" \/ s.st.code = "BUSY")
          THEN [c |-> s.c, st |-> s.st, loop |-> FALSE, rb |-> NoLoop]
          ELSE [c |-> s.c, st |-> St("(polling)", 0), loop |-> TRUE,
                rb |-> [timeoutMs |-> timeoutMs,
                        deadlineMs |-> Add32(clock, timeoutMs),
                        readyAtMs |-> Add32(clock, getConversionTimeMs(s.c.d)),
                        whileMs |-> clock, nowMs |-> clock]]

readBlockingEnter(c, timeoutMs, clock, level) ==
  IF ~c.d.initialized
  THEN [c |-> c, st |-> Error("NOT_INITIALIZED", 0), loop |-> FALSE, rb |-> NoLoop]
  ELSE IF c.d.config.mode = CONTINUOUS
  THEN LET r == readRaw(c, clock, level)
       IN [c |-> r.c, st |-> r.st, loop |-> FALSE, rb |-> NoLoop]
  ELSE LET s == startConversion(c, clock)
       IN IF ~(s.st.code = "IN_PROGRESS" \/ s.st.code = "BUSY")
          THEN [c |-> s.c, st |-> s.st, loop |-> FALSE, rb |-> NoLoop]
          ELSE LET startMs == IF s.st.code = "BUSY" THEN s.c.d.conversionStartMs ELSE clock
               IN [c |-> s.c, st |-> St("(polling)", 0), loop |-> TRUE,
                   rb |-> [timeoutMs |-> timeoutMs,
                           deadlineMs |-> Add32(startMs, timeoutMs),
                           readyAtMs |-> Add32(startMs, getConversionTimeMs(s.c.d)),
                           whileMs |-> clock, nowMs |-> clock]]

\* a deadline test that compares the clock with the deadline as absolute values
beforeDeadlineAbsolute(clock, loc) == ULess32(clock, loc.deadlineMs)

\* a deadline test that allows the timeout a second time after the deadline
beforeDeadlineTwice(clock, loc) == Sub32(clock, loc.deadlineMs) < loc.timeoutMs

\* a deadline test that lets the loop run until the conversion is due
beforeDeadlineUntilReady(clock, loc) == Sub32(clock, loc.readyAtMs) <= 0

\* line 390: static_cast<int32_t>(millis() - deadlineMs) < 0
beforeDeadline(clock, loc) == Sub32(clock, loc.deadlineMs) < 0

\* lines 391-394: static_cast<int32_t>(nowMs - readyAtMs) < 0
beforeReady(nowMs, loc) == Sub32(nowMs, loc.readyAtMs) < 0

----------------------------------------------------------------------------
(* What the environment supplies *)

\* what a transport callback answers: its Status and, for a read, the register value
Answers ==
  { [st |-> Ok, data |-> 0], [st |-> Ok, data |-> 32768],
    [st |-> St("I2C_ERROR", 2), data |-> 0],
    [st |-> St("TIMEOUT", 0), data |-> 0],
    [st |-> St("INVALID_PARAM", 0), data |-> 0],
    [st |-> St("IN_PROGRESS", 0), data |-> 0] }

\* the runs of one call Op: every way the callbacks, answering from the set A, can
\* answer it.  A run that starves is extended by one more answer; the write
\* callback delivers no data, so its answers are the ones with data 0.
RECURSIVE RunsFrom(_, _, _)
RunsFrom(Op(_), A, io) ==
  LET r == Op(io)
  IN IF ~r.c.starved THEN {r}
     ELSE UNION { RunsFrom(Op, A, Append(io, a)) :
                  a \in { x \in A : r.c.write => x.data = 0 } }

Runs(Op(_), A) == RunsFrom(Op, A, <<>>)

----------------------------------------------------------------------------
(* What the application supplies *)

\* a Config that begin accepts
GoodConfig(mode, threshold, rdyPin) ==
  [DefaultConfig EXCEPT
     !.i2cWrite = TRUE, !.i2cWriteRead = TRUE,
     !.mode = mode, !.dataRate = 7,
     !.offlineThreshold = threshold,
     !.alertRdyPin = IF rdyPin THEN 3 ELSE -1,
     !.gpioRead = rdyPin,
     !.compThresholdLow = IF rdyPin THEN 0 ELSE @,
     !.compThresholdHigh = IF rdyPin THEN -32768 ELSE @,
     !.compQueue = IF rdyPin THEN ASSERT_1 ELSE @]

\* Configs that begin rejects, one for each test of lines 113-133
BadConfigs ==
  { DefaultConfig,
    [GoodConfig(SINGLE_SHOT, 2, FALSE) EXCEPT !.i2cTimeoutMs = 0],
    [GoodConfig(SINGLE_SHOT, 2, FALSE) EXCEPT !.i2cAddress = 71],
    [GoodConfig(SINGLE_SHOT, 2, FALSE) EXCEPT !.i2cWrite = FALSE],
    [GoodConfig(SINGLE_SHOT, 2, FALSE) EXCEPT !.i2cWriteRead = FALSE],
    [GoodConfig(SINGLE_SHOT, 2, FALSE) EXCEPT !.i2cAddress = 76],
    [GoodConfig(SINGLE_SHOT, 2, FALSE) EXCEPT !.mux = 8],
    [GoodConfig(SINGLE_SHOT, 2, FALSE) EXCEPT !.gain = 6],
    [GoodConfig(SINGLE_SHOT, 2, FALSE) EXCEPT !.dataRate = 8],
    [GoodConfig(SINGLE_SHOT, 2, FALSE) EXCEPT !.mode = 2],
    [GoodConfig(SINGLE_SHOT, 2, FALSE) EXCEPT !.compMode = 2],
    [GoodConfig(SINGLE_SHOT, 2, FALSE) EXCEPT !.compPolarity = 2],
    [GoodConfig(SINGLE_SHOT, 2, FALSE) EXCEPT !.compLatch = 2],
    [GoodConfig(SINGLE_SHOT, 2, FALSE) EXCEPT !.compQueue = 4],
    [GoodConfig(SINGLE_SHOT, 2, FALSE) EXCEPT !.alertRdyPin = -2],
    [GoodConfig(SINGLE_SHOT, 2, FALSE) EXCEPT !.alertRdyPin = 3] }

\* the calls the application makes in the lifecycle and health runs (Spec)
App ==
  [ configs |-> { GoodConfig(SINGLE_SHOT, 2, FALSE), GoodConfig(SINGLE_SHOT, 0, FALSE) }
                  \cup BadConfigs,
    rebegin |-> TRUE,
    answers |-> { a \in Answers : a.st.code # "TIMEOUT" },
    muxes |-> {4, 8}, gains |-> {2, 6}, rates |-> {7, 8}, modes |-> {SINGLE_SHOT, 2},
    words |-> {17891, 19939},              \* 0x45E3, 0x4DE3 (gain 6)
    thresholds |-> { <<-32768, 32767>> },
    compModes |-> {0, 2}, compPolarities |-> {0, 2}, compLatches |-> {0, 2},
    compQueues |-> {3, 4},
    timeouts |-> {2},
    tickLags |-> {0},
    maxClock |-> MaxClock, maxIo |-> MaxIo ]

\* the calls the application makes in the conversion runs (SpecConv)
ConvApp ==
  [ configs |-> { GoodConfig(SINGLE_SHOT, 2, FALSE), GoodConfig(SINGLE_SHOT, 2, TRUE),
                  GoodConfig(CONTINUOUS, 2, FALSE),
                  [GoodConfig(SINGLE_SHOT, 2, TRUE) EXCEPT !.compPolarity = ACTIVE_HIGH] },
    rebegin |-> FALSE,
    answers |-> { a \in Answers : a.st.code \in {"OK", "I2C_ERROR", "IN_PROGRESS"} },
    muxes |-> {4, 8}, gains |-> {}, rates |-> {6}, modes |-> {CONTINUOUS, SINGLE_SHOT},
    words |-> {50659, 17891, 19939,        \* 0xC5E3: 0x45E3 with the start bit
               50403, 54238},              \* 0xC4E3: continuous; 0xD3DE: every field changed
    thresholds |-> {},
    compModes |-> {}, compPolarities |-> {}, compLatches |-> {}, compQueues |-> {},
    timeouts |-> {2, 4},
    tickLags |-> {0, 1},
    maxClock |-> ConvMaxClock, maxIo |-> ConvMaxIo ]

----------------------------------------------------------------------------
(* The state machine *)

\* no call has just returned
NoCall == [op |-> "none", arg |-> 0, st |-> Ok, calls |-> <<>>]

Init ==
  /\ drv = NewDriver
  /\ now = 0
  /\ pc = "idle"
  /\ rb = NoLoop
  /\ last = NoCall

\* the public call op(arg) made the run r and returns to the application
Return(op, arg, r) ==
  /\ drv' = r.c.d
  /\ last' = [op |-> op, arg |-> arg, st |-> r.st, calls |-> r.c.calls]
  /\ pc' = "return"
  /\ UNCHANGED <<now, rb>>

\* the application has looked at what the call returned
Returned ==
  /\ pc = "return"
  /\ pc' = "idle"
  /\ last' = NoCall
  /\ rb' = NoLoop
  /\ UNCHANGED <<drv, now>>

\* the application is between two calls
Idle == pc = "idle"

\* the model's budget of tracked transport results is not used up
Budget(P) == drv.totalSuccess + drv.totalFailures < P.maxIo

\* begin is called on a driver that is not initialized and, by an application that
\* begins again without end(), on one that is
Begin(P) ==
  /\ Idle
  /\ drv.initialized => P.rebegin
  /\ \E cfg \in P.configs :
       \E r \in Runs(LAMBDA io : begin(Ctx(drv, io), cfg, now), P.answers) :
          Return("begin", cfg, r)

End == Idle /\ Return("end", 0, end(Ctx(drv, <<>>)))

Probe(P) ==
  /\ Idle
  /\ \E r \in Runs(LAMBDA io : probe(Ctx(drv, io)), P.answers) : Return("probe", 0, r)

Recover(P) ==
  /\ Idle /\ Budget(P)
  /\ \E r \in Runs(LAMBDA io : recover(Ctx(drv, io), now), P.answers) :
       Return("recover", 0, r)

Tick(P) ==
  /\ Idle /\ Budget(P)
  /\ \E lag \in P.tickLags, level \in BOOLEAN :
       \E r \in Runs(LAMBDA io : tick(Ctx(drv, io), Sub32(now, lag), now, level),
                     P.answers) :
          Return("tick", Sub32(now, lag), r)

StartConversion(P) ==
  /\ Idle /\ Budget(P)
  /\ \E r \in Runs(LAMBDA io : startConversion(Ctx(drv, io), now), P.answers) :
       Return("startConversion", 0, r)

StartConversionMux(P) ==
  /\ Idle /\ Budget(P)
  /\ \E mux \in P.muxes :
       \E r \in Runs(LAMBDA io : startConversionMux(Ctx(drv, io), mux, now), P.answers) :
          Return("startConversionMux", mux, r)

ConversionReady(P) ==
  /\ Idle /\ Budget(P)
  /\ \E level \in BOOLEAN :
       \E r \in Runs(LAMBDA io : conversionReady(Ctx(drv, io), now, level), P.answers) :
          Return("conversionReady", 0, r)

ReadRaw(P) ==
  /\ Idle /\ Budget(P)
  /\ \E level \in BOOLEAN :
       \E r \in Runs(LAMBDA io : readRaw(Ctx(drv, io), now, level), P.answers) :
          Return("readRaw", 0, r)

ReadVoltage(P) ==
  /\ Idle /\ Budget(P)
  /\ \E level \in BOOLEAN :
       \E r \in Runs(LAMBDA io : readVoltage(Ctx(drv, io), now, level), P.answers) :
          Return("readVoltage", 0, r)

SetMux(P) ==
  /\ Idle /\ Budget(P)
  /\ \E mux \in P.muxes :
       \E r \in Runs(LAMBDA io : setMux(Ctx(drv, io), mux, now), P.answers) :
          Return("setMux", mux, r)

SetGain(P) ==
  /\ Idle /\ Budget(P)
  /\ \E gain \in P.gains :
       \E r \in Runs(LAMBDA io : setGain(Ctx(drv, io), gain, now), P.answers) :
          Return("setGain", gain, r)

SetDataRate(P) ==
  /\ Idle /\ Budget(P)
  /\ \E rate \in P.rates :
       \E r \in Runs(LAMBDA io : setDataRate(Ctx(drv, io), rate, now), P.answers) :
          Return("setDataRate", rate, r)

SetMode(P) ==
  /\ Idle /\ Budget(P)
  /\ \E mode \in P.modes :
       \E r \in Runs(LAMBDA io : setMode(Ctx(drv, io), mode, now), P.answers) :
          Return("setMode", mode, r)

ReadConfig(P) ==
  /\ Idle /\ Budget(P)
  /\ \E r \in Runs(LAMBDA io : readConfig(Ctx(drv, io), now), P.answers) :
       Return("readConfig", 0, r)

WriteConfig(P) ==
  /\ Idle /\ Budget(P)
  /\ \E config \in P.words :
       \E r \in Runs(LAMBDA io : writeConfig(Ctx(drv, io), config, now), P.answers) :
          Return("writeConfig", config, r)

SetThresholds(P) ==
  /\ Idle /\ Budget(P)
  /\ \E th \in P.thresholds :
       \E r \in Runs(LAMBDA io : setThresholds(Ctx(drv, io), th[1], th[2], now),
                     P.answers) :
          Return("setThresholds", th[1], r)

GetThresholds(P) ==
  /\ Idle /\ Budget(P)
  /\ \E r \in Runs(LAMBDA io : getThresholds(Ctx(drv, io), now), P.answers) :
       Return("getThresholds", 0, r)

SetComparatorMode(P) ==
  /\ Idle /\ Budget(P)
  /\ \E mode \in P.compModes :
       \E r \in Runs(LAMBDA io : setComparatorMode(Ctx(drv, io), mode, now), P.answers) :
          Return("setComparatorMode", mode, r)

SetComparatorPolarity(P) ==
  /\ Idle /\ Budget(P)
  /\ \E polarity \in P.compPolarities :
       \E r \in Runs(LAMBDA io : setComparatorPolarity(Ctx(drv, io), polarity, now),
                     P.answers) :
          Return("setComparatorPolarity", polarity, r)

SetComparatorLatch(P) ==
  /\ Idle /\ Budget(P)
  /\ \E latch \in P.compLatches :
       \E r \in Runs(LAMBDA io : setComparatorLatch(Ctx(drv, io), latch, now), P.answers) :
          Return("setComparatorLatch", latch, r)

SetComparatorQueue(P) ==
  /\ Idle /\ Budget(P)
  /\ \E queue \in P.compQueues :
       \E r \in Runs(LAMBDA io : setComparatorQueue(Ctx(drv, io), queue, now), P.answers) :
          Return("setComparatorQueue", queue, r)

EnableConversionReadyPin(P) ==
  /\ Idle /\ Budget(P)
  /\ \E r \in Runs(LAMBDA io : enableConversionReadyPin(Ctx(drv, io), now), P.answers) :
       Return("enableConversionReadyPin", 0, r)

DisableComparator(P) ==
  /\ Idle /\ Budget(P)
  /\ \E r \in Runs(LAMBDA io : disableComparator(Ctx(drv, io), now), P.answers) :
       Return("disableComparator", 0, r)

\* readBlocking is called: it returns at once, or enters its polling loop
ReadBlocking(P) ==
  /\ Idle /\ Budget(P)
  /\ \E timeoutMs \in P.timeouts, level \in BOOLEAN :
       \E r \in Runs(LAMBDA io : readBlockingEnter(Ctx(drv, io), timeoutMs, now, level),
                     P.answers) :
          /\ drv' = r.c.d
          /\ last' = [op |-> "readBlocking", arg |-> timeoutMs, st |-> r.st,
                      calls |-> r.c.calls]
          /\ pc' = IF r.loop THEN "while" ELSE "return"
          /\ rb' = r.rb
          /\ UNCHANGED now

\* line 390: the while condition reads millis(); when it fails, line 405 returns
\* TIMEOUT
ReadBlockingWhile ==
  /\ pc = "while"
  /\ rb' = [rb EXCEPT !.whileMs = now]
  /\ IF beforeDeadline(now, rb)
     THEN /\ pc' = "body"
          /\ last' = [last EXCEPT !.calls = <<>>]
          /\ UNCHANGED <<drv, now>>
     ELSE /\ pc' = "return"
          /\ last' = [last EXCEPT !.st = Error("TIMEOUT", 0), !.calls = <<>>]
          /\ UNCHANGED <<drv, now>>

\* a loop body that keeps polling after a read that failed
ReadBlockingBodyRetry(P) ==
  /\ pc = "body"
  /\ rb' = [rb EXCEPT !.nowMs = now]
  /\ IF beforeReady(now, rb)
     THEN /\ pc' = "while"
          /\ last' = [last EXCEPT !.calls = <<>>]
          /\ UNCHANGED <<drv, now>>
     ELSE /\ Budget(P)
          /\ \E level \in BOOLEAN :
               \E r \in Runs(LAMBDA io : readRaw(Ctx(drv, io), now, level), P.answers) :
                  LET done == ok(r.st)
                  IN /\ drv' = r.c.d
                     /\ last' = [last EXCEPT !.st = IF done THEN r.st ELSE @,
                                             !.calls = r.c.calls]
                     /\ pc' = IF done THEN "return" ELSE "while"
                     /\ UNCHANGED now

\* lines 391-402: one pass of the loop body, which reads millis() into nowMs
ReadBlockingBody(P) ==
  /\ pc = "body"
  /\ rb' = [rb EXCEPT !.nowMs = now]
  /\ IF beforeReady(now, rb)
     THEN /\ pc' = "while"
          /\ last' = [last EXCEPT !.calls = <<>>]
          /\ UNCHANGED <<drv, now>>
     ELSE /\ Budget(P)
          /\ \E level \in BOOLEAN :
               \E r \in Runs(LAMBDA io : readRaw(Ctx(drv, io), now, level), P.answers) :
                  LET done == ok(r.st) \/ r.st.code # "CONVERSION_NOT_READY"
                  IN /\ drv' = r.c.d
                     /\ last' = [last EXCEPT !.st = IF done THEN r.st ELSE @,
                                             !.calls = r.c.calls]
                     /\ pc' = IF done THEN "return" ELSE "while"
                     /\ UNCHANGED now

\* a millisecond passes, between two calls or inside the loop of readBlocking
AdvanceClock(P) ==
  /\ pc # "return"
  /\ now < P.maxClock
  /\ now' = Add32(now, 1)
  /\ UNCHANGED <<drv, pc, rb, last>>

\* every public operation, from the lifecycle and health application
Next ==
  \/ Begin(App) \/ End \/ Probe(App) \/ Recover(App) \/ Tick(App)
  \/ StartConversion(App) \/ StartConversionMux(App) \/ ConversionReady(App)
  \/ ReadRaw(App) \/ ReadVoltage(App)
  \/ ReadBlocking(App) \/ ReadBlockingWhile \/ ReadBlockingBody(App)
  \/ SetMux(App) \/ SetGain(App) \/ SetDataRate(App) \/ SetMode(App)
  \/ ReadConfig(App) \/ WriteConfig(App)
  \/ SetThresholds(App) \/ GetThresholds(App)
  \/ SetComparatorMode(App) \/ SetComparatorPolarity(App) \/ SetComparatorLatch(App)
  \/ SetComparatorQueue(App) \/ EnableConversionReadyPin(App) \/ DisableComparator(App)
  \/ Returned \/ AdvanceClock(App)

Spec == Init /\ [][Next]_vars

\* the conversion operations, from the conversion application
NextConv ==
  \/ Begin(ConvApp)
  \/ Tick(ConvApp) \/ StartConversion(ConvApp) \/ StartConversionMux(ConvApp)
  \/ ConversionReady(ConvApp) \/ ReadRaw(ConvApp)
  \/ ReadBlocking(ConvApp) \/ ReadBlockingWhile \/ ReadBlockingBody(ConvApp)
  \/ SetDataRate(ConvApp) \/ SetMode(ConvApp) \/ WriteConfig(ConvApp)
  \/ EnableConversionReadyPin(ConvApp)
  \/ Returned \/ AdvanceClock(ConvApp)

SpecConv == Init /\ [][NextConv]_vars


----------------------------------------------------------------------------
(* What the properties below speak of *)

\* the health record of a driver
Health(d) ==
  [ lastOkMs |-> d.lastOkMs, lastErrorMs |-> d.lastErrorMs, lastError |-> d.lastError,
    consecutiveFailures |-> d.consecutiveFailures,
    totalFailures |-> d.totalFailures, totalSuccess |-> d.totalSuccess ]

\* the conversion session of a driver
Session(d) ==
  [ conversionStarted |-> d.conversionStarted, conversionReady |-> d.conversionReady,
    conversionStartMs |-> d.conversionStartMs, lastRawValue |-> d.lastRawValue ]

\* a single-shot conversion is pending
Pending(d) == d.conversionStarted /\ ~d.conversionReady

\* the step is the call of a public operation, or a step of readBlocking's loop
DriverStep == pc # "return" /\ pc' # pc

\* the step is the call of op, made between two calls
CallOf(op) == pc = "idle" /\ pc' # "idle" /\ last'.op = op

\* the results the tracked wrappers handed to the health update, in order
Counted(calls) ==
  SelectSeq(calls, LAMBDA x : x.tracked /\ x.st.code \notin {"INVALID_CONFIG", "INVALID_PARAM"})

\* the consecutive-failure count after the results, each one OK or a failure
RECURSIVE FailuresAfter(_, _)
FailuresAfter(cf, results) ==
  IF results = <<>> THEN cf
  ELSE FailuresAfter(IF Head(results).st.code = "OK" THEN 0
                     ELSE IF cf < 255 THEN cf + 1 ELSE cf,
                     Tail(results))

\* the DriverState that goes with cf consecutive failures and the threshold N
StateAt(cf, N) == IF cf = 0 THEN "READY" ELSE IF cf < N THEN "DEGRADED" ELSE "OFFLINE"

ValidationCodes == {"NOT_INITIALIZED", "INVALID_CONFIG", "INVALID_PARAM"}

----------------------------------------------------------------------------
(* Health and DriverState *)

\* C1: DriverState is determined by (initialized, consecutiveFailures,
\* offlineThreshold): UNINIT iff not initialized; when initialized, READY iff the
\* count is 0, DEGRADED iff 1 <= count < threshold, OFFLINE iff count >= threshold.
C1_StateFromHealth ==
  /\ (drv.driverState = "UNINIT") <=> ~drv.initialized
  /\ drv.initialized =>
       /\ (drv.driverState = "READY") <=> (drv.consecutiveFailures = 0)
       /\ (drv.driverState = "DEGRADED") <=>
            (1 <= drv.consecutiveFailures
               /\ drv.consecutiveFailures < drv.config.offlineThreshold)
       /\ (drv.driverState = "OFFLINE") <=>
            (drv.consecutiveFailures >= drv.config.offlineThreshold)

\* a call has returned on a driver that is OFFLINE with two consecutive failures,
\* its threshold
C1_Witness ==
  /\ pc = "return"
  /\ drv.initialized
  /\ drv.config.offlineThreshold = 2
  /\ drv.consecutiveFailures = 2
  /\ drv.driverState = "OFFLINE"

\* C2: on an initialized driver with threshold N, each failing tracked call adds one
\* to the consecutive failures, the state being DEGRADED while the count is in
\* 1..N-1 and OFFLINE from N on, and one successful tracked call resets the count
\* to 0 and the state to READY; a step without a counted result changes neither.
C2_FailuresThenSuccess ==
  [][ ( /\ DriverStep
        /\ drv.initialized /\ drv'.initialized
        /\ last'.op # "begin"
        /\ \A i \in DOMAIN last'.calls : last'.calls[i].st.code # "IN_PROGRESS" )
      => LET results == Counted(last'.calls)
             cf == FailuresAfter(drv.consecutiveFailures, results)
         IN /\ drv'.consecutiveFailures = cf
            /\ drv'.driverState =
                 IF results = <<>> THEN drv.driverState
                 ELSE StateAt(cf, drv.config.offlineThreshold) ]_vars

\* after begin, two failures in a row took a driver with threshold 2 to OFFLINE and
\* the next call, a success, has brought it back to READY
C2_Witness ==
  /\ pc = "return"
  /\ drv.initialized
  /\ last.op # "begin"
  /\ drv.config.offlineThreshold = 2
  /\ drv.totalSuccess = 4 /\ drv.totalFailures = 2
  /\ drv.consecutiveFailures = 0
  /\ drv.driverState = "READY"

\* C3 as stated: a driver that is DEGRADED or OFFLINE returns to READY by a call of
\* recover() only.
C3_OnlyRecover ==
  [][ (drv.driverState \in {"DEGRADED", "OFFLINE"} /\ drv'.driverState = "READY")
      => last'.op = "recover" ]_vars

\* C3, amended: a driver that is DEGRADED or OFFLINE returns to READY only in a call
\* in which a tracked transport call succeeded, never in probe(), in a call without
\* tracked transport call, or by the passage of time.
C3_ReadyOnlyBySuccess ==
  [][ (drv.driverState \in {"DEGRADED", "OFFLINE"} /\ drv'.driverState = "READY")
      => /\ DriverStep
         /\ last'.op # "probe"
         /\ \E i \in DOMAIN last'.calls :
               /\ last'.calls[i].tracked
               /\ last'.calls[i].st.code \in {"OK", "IN_PROGRESS"} ]_vars

\* readConfig has returned OK and has brought back to READY a driver whose one
\* call since begin had failed
C3_Witness ==
  /\ pc = "return"
  /\ last.op = "readConfig" /\ last.st.code = "OK"
  /\ drv.totalSuccess = 4 /\ drv.totalFailures = 1
  /\ drv.driverState = "READY"

\* C4 as stated, for the calls rejected before any transport call: a call that
\* returns NOT_INITIALIZED, INVALID_CONFIG or INVALID_PARAM, begin() with a malformed
\* config included, leaves the health record and DriverState unchanged.
C4_ValidationKeepsHealth ==
  [][ (DriverStep /\ last'.st.code \in ValidationCodes /\ last'.calls = <<>>)
      => /\ Health(drv') = Health(drv)
         /\ drv'.driverState = drv.driverState ]_vars

\* C4, amended: a call that returns NOT_INITIALIZED, INVALID_CONFIG or INVALID_PARAM
\* and in which no tracked transport call was counted leaves the health record and
\* DriverState unchanged, unless it is begin(), which leaves the health record
\* reset and the state UNINIT.
C4_ValidationKeepsOrResets ==
  [][ (DriverStep /\ last'.st.code \in ValidationCodes /\ Counted(last'.calls) = <<>>)
      => IF last'.op = "begin"
         THEN /\ Health(drv') = Health(NewDriver)
              /\ drv'.driverState = "UNINIT"
         ELSE /\ Health(drv') = Health(drv)
              /\ drv'.driverState = drv.driverState ]_vars

\* setMux has returned INVALID_PARAM on a driver that is DEGRADED
C4_Witness ==
  /\ pc = "return"
  /\ last.op = "setMux" /\ last.st.code = "INVALID_PARAM"
  /\ drv.driverState = "DEGRADED"
  /\ drv.totalFailures = 1

\* C5: probe(), in any DriverState and whatever the transport returns, leaves the
\* health record (lastError included), DriverState and the conversion session
\* unchanged.
C5_ProbeKeepsState ==
  [][ CallOf("probe")
      => /\ Health(drv') = Health(drv)
         /\ drv'.driverState = drv.driverState
         /\ Session(drv') = Session(drv) ]_vars

\* probe has returned DEVICE_NOT_FOUND on a driver that is DEGRADED with a conversion
\* pending
C5_Witness ==
  /\ pc = "return"
  /\ last.op = "probe" /\ last.st.code = "DEVICE_NOT_FOUND"
  /\ drv.driverState = "DEGRADED"
  /\ Pending(drv)


----------------------------------------------------------------------------
(* The conversion session *)

\* C6: in single-shot mode, while a conversion started at conversionStartMs is
\* pending and less than the conversion time of the current data rate has elapsed
\* at the time of the check, conversionReady() returns false, readRaw() returns
\* CONVERSION_NOT_READY and tick() leaves the conversion pending, with the ready
\* pin as with status polling.
C6_NotReadyBeforeTime ==
  [][ ( /\ pc = "idle" /\ pc' = "return"
        /\ drv.initialized
        /\ drv.config.mode = SINGLE_SHOT
        /\ Pending(drv) )
      => LET early(t) ==
               ULess32(Sub32(t, drv.conversionStartMs), getConversionTimeMs(drv))
         IN /\ (last'.op = "conversionReady" /\ early(now))
                 => (last'.st.code = "false" /\ Pending(drv'))
            /\ (last'.op = "readRaw" /\ early(now))
                 => (last'.st.code = "CONVERSION_NOT_READY" /\ Pending(drv'))
            /\ (last'.op = "tick" /\ early(last'.arg))
                 => Pending(drv') ]_vars

\* readRaw has returned CONVERSION_NOT_READY on a driver that uses the ready pin,
\* some time after the start and before the conversion time has elapsed
C6_Witness ==
  /\ pc = "return"
  /\ last.op = "readRaw" /\ last.st.code = "CONVERSION_NOT_READY"
  /\ drv.config.mode = SINGLE_SHOT
  /\ useAlertRdyPin(drv.config)
  /\ Pending(drv)
  /\ now # drv.conversionStartMs
  /\ ULess32(Sub32(now, drv.conversionStartMs), getConversionTimeMs(drv))

\* C7 as stated: in single-shot mode readRaw() does not return OK when no
\* conversion is pending or ready, as after a readRaw() that has returned OK.
C7_NoReadFromIdle ==
  [][ ( /\ CallOf("readRaw")
        /\ drv.initialized
        /\ drv.config.mode = SINGLE_SHOT
        /\ ~drv.conversionStarted /\ ~drv.conversionReady )
      => last'.st.code # "OK" ]_vars

\* C8 as stated: in single-shot mode readBlocking(timeoutMs) with timeoutMs less
\* than the conversion time returns TIMEOUT.
C8_AlwaysTimeout ==
  ( /\ pc = "return" /\ last.op = "readBlocking"
    /\ drv.initialized
    /\ drv.config.mode = SINGLE_SHOT
    /\ last.arg < getConversionTimeMs(drv) )
  => last.st.code = "TIMEOUT"

\* C8, amended: in single-shot mode readBlocking(timeoutMs) with timeoutMs less than
\* the conversion time returns TIMEOUT, or the result of a start write that failed,
\* or, when the clock was before the deadline at the loop's test and at or after
\* the ready time when the loop body read it next, the result of readRaw().
C8_TimeoutUnlessStartFailsOrClockJumps ==
  ( /\ pc = "return" /\ last.op = "readBlocking"
    /\ drv.initialized
    /\ drv.config.mode = SINGLE_SHOT
    /\ last.arg < getConversionTimeMs(drv) )
  => \/ last.st.code = "TIMEOUT"
     \/ /\ rb = NoLoop
        /\ Len(last.calls) = 1
        /\ last.calls[1].fn = "i2cWrite" /\ last.calls[1].reg = REG_CONFIG
        /\ last.calls[1].st.code # "OK"
        /\ last.st = last.calls[1].st
     \/ /\ rb # NoLoop
        /\ Sub32(rb.whileMs, rb.deadlineMs) < 0
        /\ Sub32(rb.nowMs, rb.readyAtMs) >= 0

\* readBlocking(2) has returned TIMEOUT in single-shot mode at 860 SPS, where a
\* conversion takes 3 ms
C8_Witness ==
  /\ pc = "return"
  /\ last.op = "readBlocking" /\ last.arg = 2 /\ last.st.code = "TIMEOUT"
  /\ drv.initialized
  /\ drv.config.mode = SINGLE_SHOT
  /\ getConversionTimeMs(drv) = 3
  /\ rb.timeoutMs = 2

\* C9 as stated: startConversion() and startConversion(mux) return IN_PROGRESS
\* exactly when the transport accepted the start write, and then the conversion is
\* pending with the current time as its start; they never return OK; with any other
\* result the session is unchanged.
C9_InProgressIffStarted ==
  [][ ( /\ pc = "idle" /\ pc' = "return"
        /\ last'.op \in {"startConversion", "startConversionMux"} )
      => LET accepted == \E i \in DOMAIN last'.calls :
                            /\ last'.calls[i].fn = "i2cWrite"
                            /\ last'.calls[i].st.code = "OK"
         IN /\ (last'.st.code = "IN_PROGRESS") <=> accepted
            /\ (last'.st.code = "IN_PROGRESS")
                 => (Pending(drv') /\ drv'.conversionStartMs = now)
            /\ last'.st.code # "OK"
            /\ (last'.st.code # "IN_PROGRESS") => (Session(drv') = Session(drv)) ]_vars

\* C10: on an initialized driver, startConversion() and startConversion(mux) with a
\* valid mux return BUSY when the mode is continuous or a conversion is pending,
\* without invoking a callback and without changing the driver (session, stored
\* mux, health).
C10_BusyNoEffect ==
  [][ ( /\ pc = "idle" /\ pc' = "return"
        /\ last'.op \in {"startConversion", "startConversionMux"}
        /\ (last'.op = "startConversionMux" => isValidMux(last'.arg))
        /\ drv.initialized
        /\ (drv.config.mode = CONTINUOUS \/ Pending(drv)) )
      => /\ last'.st.code = "BUSY"
         /\ last'.calls = <<>>
         /\ drv' = drv ]_vars

\* startConversion has returned BUSY in single-shot mode with a conversion pending
C10_Witness ==
  /\ pc = "return"
  /\ last.op = "startConversion" /\ last.st.code = "BUSY"
  /\ drv.config.mode = SINGLE_SHOT
  /\ Pending(drv)

----------------------------------------------------------------------------
(* Lifecycle *)

\* the conversion session of the driver is Idle
SessionIdle(d) == ~d.conversionStarted /\ ~d.conversionReady

\* C11: begin() is all-or-nothing. When it returns anything other than OK, also
\* when called on an initialized instance, the instance is not initialized, the
\* DriverState is UNINIT and the session is Idle; when it returns OK the instance
\* is initialized, the DriverState is READY, consecutiveFailures is 0 and the
\* session is Idle.
C11_BeginAllOrNothing ==
  [][ CallOf("begin")
      => IF last'.st.code = "OK"
         THEN /\ drv'.initialized
              /\ drv'.driverState = "READY"
              /\ drv'.consecutiveFailures = 0
              /\ SessionIdle(drv')
         ELSE /\ ~drv'.initialized
              /\ drv'.driverState = "UNINIT"
              /\ SessionIdle(drv') ]_vars

\* begin() has failed in a configuration write, after a probe that succeeded
C11_Witness ==
  /\ pc = "return"
  /\ last.op = "begin" /\ last.st.code = "I2C_ERROR"
  /\ Len(last.calls) >= 2
  /\ last.calls[1].st.code = "OK"
  /\ last.calls[Len(last.calls)].tracked
  /\ ~drv.initialized /\ drv.driverState = "UNINIT"
  /\ drv.totalFailures = 1

\* C12: when the transport read of the presence probe fails, begin() and probe()
\* return DEVICE_NOT_FOUND carrying the transport's detail, for every result of
\* the transport other than INVALID_CONFIG and INVALID_PARAM, which are returned
\* unchanged; begin() then makes no configuration write and leaves the instance
\* not initialized with every health counter at zero.
C12_ProbeFailure ==
  [][ ( /\ (CallOf("begin") \/ CallOf("probe"))
        /\ last'.calls # <<>>
        /\ last'.calls[1].fn = "i2cWriteRead" /\ ~last'.calls[1].tracked
        /\ last'.calls[1].st.code # "OK" )
      => LET t == last'.calls[1].st
         IN /\ last'.st = IF t.code \in {"INVALID_CONFIG", "INVALID_PARAM"}
                          THEN t ELSE Error("DEVICE_NOT_FOUND", t.detail)
            /\ Len(last'.calls) = 1
            /\ last'.op = "begin"
                 => /\ ~drv'.initialized
                    /\ drv'.consecutiveFailures = 0
                    /\ drv'.totalFailures = 0
                    /\ drv'.totalSuccess = 0
                    /\ drv'.lastOkMs = 0 /\ drv'.lastErrorMs = 0
                    /\ drv'.lastError = Ok ]_vars

\* begin() has returned DEVICE_NOT_FOUND with the detail of the failed probe read
C12_Witness ==
  /\ pc = "return"
  /\ last.op = "begin"
  /\ Len(last.calls) = 1
  /\ last.calls[1].st.code = "I2C_ERROR" /\ last.calls[1].st.detail # 0
  /\ last.st = Error("DEVICE_NOT_FOUND", last.calls[1].st.detail)
  /\ ~drv.initialized /\ drv.totalFailures = 0

\* the configurations the validation of begin() is to reject
Rejected(cfg) ==
  \/ ~cfg.i2cWrite \/ ~cfg.i2cWriteRead
  \/ cfg.i2cTimeoutMs = 0
  \/ cfg.i2cAddress \notin 72..75
  \/ cfg.mux \notin 0..7 \/ cfg.gain \notin 0..5
  \/ cfg.dataRate \notin 0..7 \/ cfg.mode \notin 0..1
  \/ cfg.compMode \notin 0..1 \/ cfg.compPolarity \notin 0..1
  \/ cfg.compLatch \notin 0..1 \/ cfg.compQueue \notin 0..3
  \/ cfg.alertRdyPin < -1
  \/ (cfg.alertRdyPin >= 0 /\ ~cfg.gpioRead)

\* C13: begin() returns INVALID_CONFIG without invoking any transport callback
\* when the config has a missing write or write-read callback, a zero timeout, an
\* address outside 0x48..0x4B, an enum field out of range, a ready pin below -1,
\* or a ready pin >= 0 without a level-read callback; the default-constructed
\* Config is one of these.
C13_BeginRejects ==
  [][ (CallOf("begin") /\ Rejected(last'.arg))
      => /\ last'.st.code = "INVALID_CONFIG"
         /\ last'.calls = <<>> ]_vars

\* begin() has rejected a config whose only fault is an enum field out of range
C13_Witness ==
  /\ pc = "return"
  /\ last.op = "begin" /\ last.st.code = "INVALID_CONFIG"
  /\ last.calls = <<>>
  /\ last.arg.compQueue = 4
  /\ ~drv.initialized

\* the operations that return a Status and require an initialized driver
GuardedOps ==
  { "startConversion", "startConversionMux", "readRaw", "readVoltage", "readBlocking",
    "setMux", "setGain", "setDataRate", "setMode", "readConfig", "writeConfig",
    "setThresholds", "getThresholds", "enableConversionReadyPin", "disableComparator",
    "recover" }

\* C14: while the driver is not initialized (before begin, after a failed begin,
\* after end), startConversion, readRaw, readVoltage, readBlocking, setMux,
\* setGain, setDataRate, setMode, readConfig, writeConfig, setThresholds,
\* getThresholds, enableConversionReadyPin, disableComparator and recover return
\* NOT_INITIALIZED without invoking a callback and without changing a field of the
\* driver; conversionReady() returns false and tick() does nothing.
C14_NotInitialized ==
  [][ ( /\ pc = "idle" /\ pc' # "idle"
        /\ ~drv.initialized
        /\ last'.op \in GuardedOps \cup {"conversionReady", "tick"} )
      => /\ pc' = "return"
         /\ last'.calls = <<>>
         /\ drv' = drv
         /\ last'.op \in GuardedOps => last'.st.code = "NOT_INITIALIZED"
         /\ last'.op = "conversionReady" => last'.st.code = "false" ]_vars

\* readBlocking() has returned NOT_INITIALIZED on a driver whose begin() failed or
\* that was ended
C14_Witness ==
  /\ pc = "return"
  /\ last.op = "readBlocking" /\ last.st.code = "NOT_INITIALIZED"
  /\ ~drv.initialized
  /\ drv.config.i2cWrite /\ drv.config.i2cWriteRead

\* C15: an offlineThreshold of 0 passed to begin() is stored as 1, so that after a
\* successful begin() a single failing tracked call moves the DriverState from
\* READY directly to OFFLINE, without DEGRADED.
C15_ZeroThresholdIsOne ==
  [][ /\ (CallOf("begin") /\ last'.arg.offlineThreshold = 0 /\ last'.st.code = "OK")
        => (drv'.config.offlineThreshold = 1 /\ drv'.driverState = "READY")
      /\ ( /\ DriverStep /\ ~CallOf("begin")
           /\ drv.initialized /\ drv.config.offlineThreshold = 1
           /\ drv.driverState = "READY"
           /\ drv'.totalFailures # drv.totalFailures
           /\ drv'.initialized )
        => drv'.driverState = "OFFLINE"
      /\ ( /\ ~CallOf("begin")
           /\ drv.initialized /\ drv'.initialized /\ drv.config.offlineThreshold = 1 )
        => (drv'.config.offlineThreshold = 1 /\ drv'.driverState # "DEGRADED") ]_vars

\* after a begin() with offlineThreshold 0, one failed tracked read has taken the
\* driver to OFFLINE
C15_Witness ==
  /\ pc = "return"
  /\ last.op = "recover" /\ last.st.code = "I2C_ERROR"
  /\ drv.initialized /\ drv.config.offlineThreshold = 1
  /\ drv.consecutiveFailures = 1 /\ drv.totalFailures = 1
  /\ drv.driverState = "OFFLINE"

----------------------------------------------------------------------------
(* Configuration mutation *)

\* the call is a configuration mutation with a valid argument (for writeConfig: a
\* valid word with the start bit clear)
ValidMutation(op, arg) ==
  \/ op = "setMux" /\ arg \in 0..7
  \/ op = "setGain" /\ arg \in 0..5
  \/ op = "setDataRate" /\ arg \in 0..7
  \/ op = "setMode" /\ arg \in 0..1
  \/ op = "writeConfig" /\ isValidConfigValue(arg) /\ MaskOs(arg) # OS_START

\* the step is a configuration mutation with a valid argument on an initialized
\* driver whose session is Pending or Ready
MutationInSession ==
  /\ pc = "idle" /\ pc' = "return"
  /\ last'.op \in {"setMux", "setGain", "setDataRate", "setMode", "writeConfig"}
  /\ ValidMutation(last'.op, last'.arg)
  /\ drv.initialized
  /\ ~SessionIdle(drv)

\* C16 as stated: every configuration mutation (setMux, setGain, setDataRate,
\* setMode, writeConfig with the start bit clear) with a valid argument on an
\* initialized driver whose session is Pending or Ready abandons the conversion:
\* when the call returns the session is Idle. (Stated for the calls in which the
\* transport answers OK or with a bus error only.)
C16_AlwaysAbandons ==
  [][ ( /\ MutationInSession
        /\ \A i \in 1..Len(last'.calls) :
              last'.calls[i].st.code \in {"OK", "I2C_ERROR"} )
      => SessionIdle(drv') ]_vars

\* C16: a configuration mutation with a valid argument on an initialized driver
\* whose session is Pending or Ready abandons the conversion when it returns OK,
\* and setMode() whatever it returns; when setMux, setGain, setDataRate or
\* writeConfig returns a failure of the transport the session is as it was.
C16_AbandonsWhenWritten ==
  [][ MutationInSession
      => /\ (last'.st.code = "OK" \/ last'.op = "setMode") => SessionIdle(drv')
         /\ (last'.st.code # "OK" /\ last'.op # "setMode")
              => Session(drv') = Session(drv) ]_vars

\* setGain() has failed in the transport and the conversion is still pending
C16_Witness ==
  /\ pc = "return"
  /\ last.op = "setGain" /\ last.st.code = "I2C_ERROR"
  /\ ValidMutation(last.op, last.arg)
  /\ drv.initialized
  /\ Pending(drv)

\* the fields of a config word, by the register layout of the device
Decoded(word) ==
  [ mux |-> (word \div 4096) % 8, gain |-> (word \div 512) % 8,
    mode |-> (word \div 256) % 2, dataRate |-> (word \div 32) % 8,
    compMode |-> (word \div 16) % 2, compPolarity |-> (word \div 8) % 2,
    compLatch |-> (word \div 4) % 2, compQueue |-> word % 4 ]

\* the fields of the stored configuration that a config word holds
StoredFields(d) ==
  [ mux |-> d.config.mux, gain |-> d.config.gain,
    mode |-> d.config.mode, dataRate |-> d.config.dataRate,
    compMode |-> d.config.compMode, compPolarity |-> d.config.compPolarity,
    compLatch |-> d.config.compLatch, compQueue |-> d.config.compQueue ]

\* the start bit of the word is set
StartBit(word) == (word \div 32768) % 2 = 1

\* C17 as stated: after writeConfig(word) returns OK the stored fields are the
\* ones decoded from the word and the session is Pending if the start bit of the
\* word is set and Idle otherwise; when writeConfig fails the stored configuration
\* and the session are unchanged.
C17_StartBitPending ==
  [][ CallOf("writeConfig")
      => IF last'.st.code = "OK"
         THEN /\ StoredFields(drv') = Decoded(last'.arg)
              /\ IF StartBit(last'.arg)
                 THEN Pending(drv') /\ drv'.conversionStartMs = now
                 ELSE SessionIdle(drv')
         ELSE /\ drv'.config = drv.config
              /\ Session(drv') = Session(drv) ]_vars

\* C17: after writeConfig(word) returns OK the stored mux, gain, mode, data rate
\* and comparator fields are the ones decoded from the word, and the session is
\* Pending (started, not ready, start timestamp captured) if the start bit is set
\* and the decoded mode is single-shot, and Idle otherwise; when writeConfig fails
\* (invalid word, transport failure, driver not initialized) the stored
\* configuration and the session are unchanged.
C17_WriteConfigDecodes ==
  [][ CallOf("writeConfig")
      => IF last'.st.code = "OK"
         THEN /\ StoredFields(drv') = Decoded(last'.arg)
              /\ IF StartBit(last'.arg) /\ Decoded(last'.arg).mode = SINGLE_SHOT
                 THEN Pending(drv') /\ drv'.conversionStartMs = now
                 ELSE SessionIdle(drv')
         ELSE /\ drv'.config = drv.config
              /\ Session(drv') = Session(drv) ]_vars

\* writeConfig() has stored a word that changes every field and starts a
\* conversion
C17_Witness ==
  /\ pc = "return"
  /\ last.op = "writeConfig" /\ last.st.code = "OK"
  /\ last.arg = 54238
  /\ drv.config.mux = 5 /\ drv.config.gain = 1 /\ drv.config.dataRate = 6
  /\ drv.config.compQueue = 2
  /\ Pending(drv) /\ drv.conversionStartMs = now /\ now > 0

----------------------------------------------------------------------------
(* tick, end and recover *)

\* the invocation is a tracked read of the config register
ConfigRead(x) == x.fn = "i2cWriteRead" /\ x.reg = REG_CONFIG /\ x.tracked

\* the invocation tells that the conversion has finished: the config register
\* was read with the OS bit set, or the ready pin was read at its active level
ReadyIndication(x, cfg) ==
  \/ ConfigRead(x) /\ x.st.code = "OK" /\ x.value \div 32768 = 1
  \/ x.fn = "gpioRead" /\ (x.value = 1) = (cfg.compPolarity = ACTIVE_HIGH)

\* C18: one call of tick() makes at most one invocation, a read of the config
\* register or a read of the ready-pin level, never both and never more; it makes
\* none when the driver is not initialized, the mode is continuous, no conversion
\* is Pending, or the conversion time has not elapsed at the time passed to tick;
\* on a ready indication it moves the session from Pending to Ready, and without
\* one it leaves the session as it is.
C18_TickOneCheck ==
  [][ CallOf("tick")
      => LET calls == last'.calls
             early == ULess32(Sub32(last'.arg, drv.conversionStartMs),
                              getConversionTimeMs(drv))
         IN /\ pc' = "return"
            /\ Len(calls) <= 1
            /\ \A i \in 1..Len(calls) :
                 IF useAlertRdyPin(drv.config)
                 THEN calls[i].fn = "gpioRead" ELSE ConfigRead(calls[i])
            /\ ( \/ ~drv.initialized \/ drv.config.mode = CONTINUOUS
                 \/ ~Pending(drv) \/ early )
                 => (calls = <<>> /\ drv' = drv)
            /\ IF calls # <<>> /\ ReadyIndication(calls[1], drv.config)
               THEN /\ Pending(drv)
                    /\ ~drv'.conversionStarted /\ drv'.conversionReady
               ELSE Session(drv') = Session(drv) ]_vars

\* tick() has read the config register once, found the conversion finished and
\* made the session Ready
C18_Witness ==
  /\ pc = "return"
  /\ last.op = "tick"
  /\ Len(last.calls) = 1
  /\ ConfigRead(last.calls[1]) /\ ReadyIndication(last.calls[1], drv.config)
  /\ ~drv.conversionStarted /\ drv.conversionReady

\* C19: end(), called in any state, invokes no callback and leaves the driver not
\* initialized, with DriverState UNINIT and the session Idle; it is idempotent: a
\* second end() changes nothing.
C19_EndResets ==
  [][ CallOf("end")
      => /\ pc' = "return"
         /\ last'.calls = <<>>
         /\ ~drv'.initialized
         /\ drv'.driverState = "UNINIT"
         /\ SessionIdle(drv')
         /\ end(Ctx(drv', <<>>)).c.d = drv'
         /\ ~drv.initialized => drv' = drv ]_vars

\* end() has returned on a driver that had been initialized and had served calls
C19_Witness ==
  /\ pc = "return"
  /\ last.op = "end"
  /\ ~drv.initialized /\ drv.driverState = "UNINIT"
  /\ drv.totalSuccess > 3
  /\ drv.totalFailures > 0

----------------------------------------------------------------------------
(* The health record and the tracked path *)

\* C21: DriverState is written only by begin(), end() and the health update of
\* the tracked wrappers, and the health update leaves DriverState alone while
\* the driver is not initialized: the tracked results of begin()'s configuration
\* writes update the counters and DriverState stays UNINIT, so that READY,
\* DEGRADED and OFFLINE are never seen on an instance that is not initialized.
C21_StateWrittenByHealth ==
  [][ /\ (drv'.driverState # drv.driverState)
        => \/ CallOf("begin") \/ CallOf("end")
           \/ (DriverStep /\ Counted(last'.calls) # <<>>)
      /\ ~drv'.initialized => drv'.driverState = "UNINIT"
      /\ (CallOf("begin") /\ last'.st.code # "OK")
        => /\ drv'.driverState = "UNINIT"
           /\ drv'.totalSuccess + drv'.totalFailures = Len(Counted(last'.calls)) ]_vars

\* begin() with threshold 0 has failed in its last configuration write: the
\* counters hold two successes and a failure that reaches the threshold, and the
\* DriverState is UNINIT
C21_Witness ==
  /\ pc = "return"
  /\ last.op = "begin" /\ last.st.code = "I2C_ERROR"
  /\ drv.config.offlineThreshold = 1
  /\ drv.totalSuccess = 2 /\ drv.totalFailures = 1 /\ drv.consecutiveFailures = 1
  /\ ~drv.initialized /\ drv.driverState = "UNINIT"

\* C22 as stated: the health record changes only in the health update reached
\* through a tracked transport call; no public operation, begin() and end()
\* included, changes a health field by another path.
C22_HealthOnlyByTracked ==
  [][ (Health(drv') # Health(drv))
      => (DriverStep /\ Counted(last'.calls) # <<>>) ]_vars

\* C22: the health record changes only in the health update reached through a
\* tracked transport call, and in begin(), which first resets every health field
\* and then counts the results of its configuration writes; no other public
\* operation changes a health field.
C22_HealthByTrackedOrBegin ==
  [][ /\ (Health(drv') # Health(drv))
        => (DriverStep /\ (Counted(last'.calls) # <<>> \/ last'.op = "begin"))
      /\ (CallOf("begin") /\ Counted(last'.calls) = <<>>)
        => Health(drv') = Health(NewDriver)
      /\ CallOf("begin")
        => drv'.totalSuccess + drv'.totalFailures = Len(Counted(last'.calls)) ]_vars

\* readConfig() has failed at time 1 and the health record holds the failure
C22_Witness ==
  /\ pc = "return"
  /\ last.op = "readConfig" /\ last.st.code = "I2C_ERROR"
  /\ now = 1
  /\ drv.lastError = last.st /\ drv.lastErrorMs = 1
  /\ drv.totalFailures = 1

\* the invocation is one of a transport callback
Transport(x) == x.fn \in {"i2cWrite", "i2cWriteRead"}

\* the invocation was answered with a result the health update counts as a success
CountsAsSuccess(x) ==
  Transport(x) /\ x.st.code \in {"OK", "IN_PROGRESS"}

\* the invocation was answered with a result the health update counts as a failure
CountsAsFailure(x) ==
  Transport(x) /\ x.st.code \notin {"OK", "IN_PROGRESS", "INVALID_CONFIG", "INVALID_PARAM"}

\* C23: every invocation of a transport callback made by a public operation,
\* other than the read of the presence probe (probe() and the probe of begin()),
\* goes through the tracked path: each one whose result is not INVALID_CONFIG or
\* INVALID_PARAM adds one to totalSuccess (result OK or IN_PROGRESS) or one to
\* totalFailures (any other result), and nothing else changes the two counters.
C23_EveryCallTracked ==
  [][ (DriverStep /\ last'.op # "probe")
      => LET calls == IF last'.op = "begin" /\ last'.calls # <<>>
                      THEN Tail(last'.calls) ELSE last'.calls
             s0 == IF last'.op = "begin" THEN 0 ELSE drv.totalSuccess
             f0 == IF last'.op = "begin" THEN 0 ELSE drv.totalFailures
         IN /\ \A i \in 1..Len(calls) : Transport(calls[i]) => calls[i].tracked
            /\ drv'.totalSuccess = s0 + Len(SelectSeq(calls, CountsAsSuccess))
            /\ drv'.totalFailures = f0 + Len(SelectSeq(calls, CountsAsFailure))
            /\ (last'.op = "begin" /\ last'.calls # <<>>)
                 => ~last'.calls[1].tracked ]_vars

\* readRaw() has made two tracked reads, the first answered OK and the second with
\* a bus error: one success and one failure were counted
C23_Witness ==
  /\ pc = "return"
  /\ last.op = "readRaw" /\ last.st.code = "I2C_ERROR"
  /\ Len(last.calls) = 2
  /\ last.calls[1].tracked /\ last.calls[1].st.code = "OK"
  /\ last.calls[2].tracked /\ last.calls[2].st.code = "I2C_ERROR"
  /\ drv.totalSuccess = 4 /\ drv.totalFailures = 1

----------------------------------------------------------------------------
(* Continuous mode and the readiness check *)

\* the driver is initialized and its stored mode is continuous
Continuous(d) == d.initialized /\ d.config.mode = CONTINUOUS

\* C24: while the stored mode of an initialized driver is continuous, the session
\* keeps no Pending/Ready bookkeeping (the started and the ready flag are false
\* in every state), conversionReady() returns true without invoking a callback,
\* and every readRaw() makes exactly one tracked read of the conversion register
\* and returns its outcome.
C24_ContinuousNoSession ==
  [][ /\ Continuous(drv') => SessionIdle(drv')
      /\ (CallOf("conversionReady") /\ Continuous(drv))
        => /\ last'.st.code = "true"
           /\ last'.calls = <<>>
           /\ drv' = drv
      /\ (CallOf("readRaw") /\ Continuous(drv))
        => /\ Len(last'.calls) = 1
           /\ last'.calls[1].fn = "i2cWriteRead"
           /\ last'.calls[1].reg = REG_CONVERSION
           /\ last'.calls[1].tracked
           /\ last'.st.code = last'.calls[1].st.code
           /\ last'.st.code = "OK"
                => drv'.lastRawValue = ToInt16(last'.calls[1].value)
           /\ drv'.config = drv.config ]_vars

\* in continuous mode readRaw() has returned OK with the negative value it read
C24_Witness ==
  /\ pc = "return"
  /\ Continuous(drv)
  /\ last.op = "readRaw" /\ last.st.code = "OK"
  /\ Len(last.calls) = 1 /\ last.calls[1].reg = REG_CONVERSION
  /\ last.calls[1].value = 32768
  /\ drv.lastRawValue = -32768
  /\ SessionIdle(drv)

\* a ready pin and its level-read callback are configured and the stored
\* comparator fields are the conversion-ready combination
PinStrategy(cfg) ==
  /\ cfg.alertRdyPin >= 0 /\ cfg.gpioRead
  /\ cfg.compThresholdLow = 0 /\ cfg.compThresholdHigh = -32768
  /\ cfg.compQueue = ASSERT_1 /\ cfg.compMode = TRADITIONAL
  /\ cfg.compLatch = NON_LATCHING

\* the call op, made on the driver d at the time t, comes to its readiness check
CheckDue(op, d, t) ==
  LET elapsed == ~ULess32(Sub32(t, d.conversionStartMs), getConversionTimeMs(d))
  IN /\ d.initialized /\ d.config.mode = SINGLE_SHOT /\ ~d.conversionReady
     /\ CASE op = "tick" -> d.conversionStarted /\ elapsed
          [] op = "conversionReady" -> d.conversionStarted /\ elapsed
          [] op = "readRaw" -> d.conversionStarted => elapsed

\* C25: the two ways of detecting readiness exclude each other. A readiness check
\* in tick(), conversionReady() or readRaw() reads the level of the ready pin and
\* invokes no transport callback exactly when a ready pin (>= 0) and its
\* level-read callback are configured and the stored comparator fields are the
\* conversion-ready combination (low threshold 0x0000, high threshold 0x8000,
\* queue ASSERT_1, TRADITIONAL, NON_LATCHING); ready then means that the level is
\* the active level of the configured polarity. Otherwise the check is exactly one
\* tracked read of the config register and the pin callback is not called.
C25_OneStrategy ==
  [][ ( /\ pc = "idle" /\ pc' = "return"
        /\ last'.op \in {"tick", "conversionReady", "readRaw"} )
      => LET calls == last'.calls
             cfg == drv.config
             due == CheckDue(last'.op, drv, IF last'.op = "tick" THEN last'.arg ELSE now)
             checks == SelectSeq(calls, LAMBDA x : x.fn = "gpioRead" \/ ConfigRead(x))
             active == (calls[1].value = 1) = (cfg.compPolarity = ACTIVE_HIGH)
         IN /\ Len(checks) = IF due THEN 1 ELSE 0
            /\ due =>
                 /\ calls[1] = checks[1]
                 /\ (calls[1].fn = "gpioRead") <=> PinStrategy(cfg)
                 /\ ConfigRead(calls[1]) <=> ~PinStrategy(cfg)
                 /\ PinStrategy(cfg) =>
                      /\ last'.op \in {"tick", "conversionReady"}
                           => (Len(calls) = 1 /\ (drv'.conversionReady <=> active))
                      /\ last'.op = "conversionReady"
                           => ((last'.st.code = "true") <=> active)
                      /\ last'.op = "readRaw"
                           => ((last'.st.code # "CONVERSION_NOT_READY") <=> active) ]_vars

\* conversionReady() has read the ready pin of an active-high configuration at its
\* high level, without a transport call, and has returned true
C25_Witness ==
  /\ pc = "return"
  /\ last.op = "conversionReady" /\ last.st.code = "true"
  /\ PinStrategy(drv.config) /\ drv.config.compPolarity = ACTIVE_HIGH
  /\ Len(last.calls) = 1
  /\ last.calls[1].fn = "gpioRead" /\ last.calls[1].value = 1
  /\ drv.conversionReady

----------------------------------------------------------------------------
(* Saturation of the health counters *)

\* the calls of an application that watches a driver after a long run of failures
SatApp == [App EXCEPT !.answers = { a \in Answers : a.st.code \in {"OK", "I2C_ERROR"}
                                                     /\ a.data = 0 }]

\* an initialized driver that is OFFLINE after 255 or more failures in a row, with
\* the two totals at 2^32-2 or 2^32-1
SatDrivers ==
  { [NewDriver EXCEPT
       !.config = [GoodConfig(SINGLE_SHOT, 2, FALSE) EXCEPT !.offlineThreshold = thr],
       !.initialized = TRUE,
       !.driverState = "OFFLINE",
       !.lastError = Error("I2C_ERROR", 2),
       !.consecutiveFailures = UINT8_MAX,
       !.totalFailures = tf,
       !.totalSuccess = ts] :
    thr \in {2, UINT8_MAX},
    tf \in {Sub32(UINT32_MAX, 1), UINT32_MAX},
    ts \in {Sub32(UINT32_MAX, 1), UINT32_MAX} }

InitSat ==
  /\ drv \in SatDrivers
  /\ now = 0
  /\ pc = "idle"
  /\ rb = NoLoop
  /\ last = NoCall

NextSat == Recover(SatApp) \/ Returned \/ AdvanceClock(SatApp)

SpecSat == InitSat /\ [][NextSat]_vars

\* C26: the failure counters saturate and do not wrap. A tracked failure at
\* consecutiveFailures = 255 leaves it at 255, never 0, so that a driver that is
\* OFFLINE stays OFFLINE through any further tracked failures; totalFailures and
\* totalSuccess stay at 2^32-1 once they have reached it; and every tracked
\* success sets consecutiveFailures to 0.
C26_CountersSaturate ==
  [][ (CallOf("recover") /\ drv.initialized)
      => LET failed == last'.st.code # "OK"
         IN /\ failed =>
                 /\ drv'.consecutiveFailures =
                      IF drv.consecutiveFailures = 255 THEN 255
                      ELSE drv.consecutiveFailures + 1
                 /\ drv'.totalFailures =
                      IF drv.totalFailures = UINT32_MAX THEN UINT32_MAX
                      ELSE Add32(drv.totalFailures, 1)
                 /\ drv'.totalSuccess = drv.totalSuccess
                 /\ drv.driverState = "OFFLINE" => drv'.driverState = "OFFLINE"
            /\ ~failed =>
                 /\ drv'.consecutiveFailures = 0
                 /\ drv'.driverState = "READY"
                 /\ drv'.totalSuccess =
                      IF drv.totalSuccess = UINT32_MAX THEN UINT32_MAX
                      ELSE Add32(drv.totalSuccess, 1)
                 /\ drv'.totalFailures = drv.totalFailures ]_vars

\* recover() has failed on a driver that had 255 consecutive failures and 2^32-1
\* failures in all, and no success since: both counters are where they were and
\* the driver is OFFLINE
C26_Witness ==
  /\ pc = "return"
  /\ last.op = "recover" /\ last.st.code = "I2C_ERROR"
  /\ drv.consecutiveFailures = 255
  /\ drv.totalFailures = UINT32_MAX
  /\ drv.totalSuccess = Sub32(UINT32_MAX, 1)
  /\ drv.lastErrorMs = 1
  /\ drv.driverState = "OFFLINE"

----------------------------------------------------------------------------
(* Termination of readBlocking *)

\* the calls of an application that reads conversions with readBlocking
BlockApp ==
  [ConvApp EXCEPT
     !.configs = { GoodConfig(SINGLE_SHOT, 2, FALSE), GoodConfig(SINGLE_SHOT, 2, TRUE) },
     !.answers = { a \in Answers : a.st.code \in {"OK", "I2C_ERROR"} },
     !.tickLags = {0}]

NextBlock ==
  \/ Begin(BlockApp) \/ StartConversion(BlockApp) \/ Tick(BlockApp)
  \/ ReadBlocking(BlockApp) \/ ReadBlockingWhile \/ ReadBlockingBody(BlockApp)
  \/ Returned \/ AdvanceClock(BlockApp)

\* lines 386-405: one step of the loop of readBlocking, its test or its body
LoopStep == ReadBlockingWhile \/ ReadBlockingBody(BlockApp)

\* the states where LoopStep can be taken: the test always can, the body can
\* unless it needs a transport result beyond the modelled budget
LoopEnabled ==
  \/ pc = "while"
  \/ pc = "body" /\ (beforeReady(now, rb) \/ Budget(BlockApp))

\* the millisecond clock keeps advancing and the loop of readBlocking keeps running,
\* every callback it invokes returning: weak fairness of the clock and of LoopStep,
\* the latter, WF_vars(LoopStep), with its enabling condition written out
SpecBlock ==
  /\ Init /\ [][NextBlock]_vars
  /\ WF_vars(AdvanceClock(BlockApp))
  /\ ([]<>(~LoopEnabled) \/ []<><<LoopStep>>_vars)

\* readBlocking is in its polling loop
InLoop == pc \in {"while", "body"}

\* C27: readBlocking() terminates. While the millisecond clock keeps advancing and
\* every transport call returns, the loop tests the deadline in each iteration and
\* readBlocking returns: the test made when the clock has reached
\* start + timeoutMs ends the loop with TIMEOUT, and a loop whose deadline lies
\* within the modelled time leads to a return (OK, TIMEOUT or another error)
\* unless the modelled budget of transport results runs out first.
C27_ReadBlockingTerminates ==
  /\ [][ (pc = "while" /\ pc' # pc /\ Sub32(now, rb.deadlineMs) >= 0)
         => (pc' = "return" /\ last'.st.code = "TIMEOUT") ]_vars
  /\ [][ (pc = "body" /\ pc' # pc) => pc' \in {"while", "return"} ]_vars
  /\ (InLoop /\ rb.deadlineMs <= ConvMaxClock)
       ~> (pc = "return" \/ (InLoop /\ ~Budget(BlockApp)))

\* readBlocking(4) has polled a conversion that did not finish and has returned
\* TIMEOUT at the first test made once the clock had reached the deadline
C27_Witness ==
  /\ pc = "return"
  /\ last.op = "readBlocking" /\ last.st.code = "TIMEOUT"
  /\ rb.timeoutMs = 4
  /\ Sub32(rb.nowMs, rb.readyAtMs) >= 0
  /\ rb.whileMs = rb.deadlineMs
  /\ Pending(drv)


----------------------------------------------------------------------------
(* Progress of a pending conversion under tick *)

\* the calls of an application that starts conversions and polls them with tick(now)
TickApp ==
  [ConvApp EXCEPT
     !.configs = { GoodConfig(SINGLE_SHOT, 2, FALSE), GoodConfig(SINGLE_SHOT, 2, TRUE) },
     !.answers = { a \in Answers : a.st.code \in {"OK", "I2C_ERROR"} },
     !.muxes = {4},
     !.tickLags = {0}]

NextTick ==
  \/ Begin(TickApp) \/ End \/ StartConversion(TickApp) \/ Tick(TickApp)
  \/ ConversionReady(TickApp) \/ ReadRaw(TickApp) \/ SetMux(TickApp)
  \/ Returned \/ AdvanceClock(TickApp)

\* lines 161-162: tick(now) can be called and finds a pending conversion whose
\* conversion time has elapsed
TickDue == Idle /\ Budget(TickApp) /\ CheckDue("tick", drv, now)

\* lines 163-174: such a tick, whose read of the config register succeeds with the
\* idle status bit or whose read of the ready pin finds it asserted
GoodTick ==
  /\ Tick(TickApp)
  /\ CheckDue("tick", drv, now)
  /\ \A i \in DOMAIN last'.calls : ReadyIndication(last'.calls[i], drv.config)

\* every call returns to the application, the millisecond clock keeps advancing,
\* and tick(now) keeps being called and answered ready once the conversion time
\* has elapsed: strong fairness of the clock and of GoodTick, the latter,
\* SF_vars(GoodTick), with its enabling condition written out
SpecTick ==
  /\ Init /\ [][NextTick]_vars
  /\ WF_vars(Returned)
  /\ SF_vars(AdvanceClock(TickApp))
  /\ (<>[](~TickDue) \/ []<><<GoodTick>>_vars)

\* a result is ready to be read
Ready(d) == d.conversionReady

\* C28: in single-shot mode with a Pending conversion, when tick(now) keeps being
\* called with an advancing clock and is answered ready once the conversion time
\* has elapsed, the session eventually becomes Ready (unless a read consumes the
\* conversion, end() or a reconfiguration abandons it, or the modelled budget of
\* transport results runs out first); and once Ready, conversionReady() returns
\* true without a callback and changes nothing, and the session stays Ready until
\* a successful read, a new start, a reconfiguration or end().
C28_PendingBecomesReady ==
  /\ (Pending(drv) /\ drv.config.mode = SINGLE_SHOT
        /\ Add32(drv.conversionStartMs, getConversionTimeMs(drv)) <= ConvMaxClock)
       ~> \/ Ready(drv)
          \/ pc = "return" /\ last.op \in {"readRaw", "end", "setMux"}
          \/ ~Budget(TickApp)
  /\ [][ (CallOf("conversionReady") /\ drv.initialized /\ Ready(drv))
         => (last'.st.code = "true" /\ last'.calls = <<>> /\ drv' = drv) ]_vars
  /\ [][ (Ready(drv) /\ ~Ready(drv'))
         => \/ CallOf("readRaw") /\ last'.st.code = "OK"
            \/ CallOf("startConversion") /\ last'.st.code = "IN_PROGRESS"
            \/ CallOf("setMux")
            \/ CallOf("end") ]_vars

\* a tick has found the elapsed conversion ready, by the status bit or by the pin,
\* and has made the session Ready
C28_Witness ==
  /\ pc = "return" /\ last.op = "tick"
  /\ Len(last.calls) = 1
  /\ ReadyIndication(last.calls[1], drv.config)
  /\ Ready(drv) /\ ~drv.conversionStarted
  /\ ~ULess32(Sub32(now, drv.conversionStartMs), getConversionTimeMs(drv))


----------------------------------------------------------------------------
(* The conversion session and the health state *)

\* the driver d as it would be with DriverState READY
Healthy(d) == [d EXCEPT !.driverState = "READY"]

\* what a call does apart from the health record: its status, its callbacks,
\* the session and the configuration it leaves
Outcome(r) ==
  [ st |-> r.st, calls |-> r.c.calls, session |-> Session(r.c.d),
    config |-> r.c.d.config, initialized |-> r.c.d.initialized ]

\* the transport results the compared calls are given
HealthIo ==
  { <<a, b>> : a, b \in { x \in Answers : x.st.code = "I2C_ERROR" \/ x.data = 32768 } }

\* the outcomes of the public operations called on d at time t with results io
OutcomesOn(d, io, level, t) ==
  << Outcome(startConversion(Ctx(d, io), t)),
     Outcome(startConversionMux(Ctx(d, io), 4, t)),
     Outcome(conversionReady(Ctx(d, io), t, level)),
     Outcome(readRaw(Ctx(d, io), t, level)),
     Outcome(tick(Ctx(d, io), t, t, level)),
     Outcome(setMux(Ctx(d, io), 4, t)),
     Outcome(recover(Ctx(d, io), t)),
     Outcome(probe(Ctx(d, io))) >>

\* C29: the conversion session is independent of the health state. The health
\* update leaves the started and ready flags, the start timestamp and the last raw
\* value as they are whatever the status it is given, and a call made while
\* DriverState is DEGRADED or OFFLINE has the outcome (status, callbacks, session,
\* configuration) it would have with DriverState READY: none is refused for it.
C29_SessionApartFromHealth ==
  /\ \A a \in Answers : Session(updateHealth(drv, a.st, now)) = Session(drv)
  /\ (pc = "idle" /\ drv.driverState \in {"DEGRADED", "OFFLINE"})
       => \A io \in HealthIo, level \in BOOLEAN :
             OutcomesOn(drv, io, level, now) = OutcomesOn(Healthy(drv), io, level, now)

\* a result is ready to be read while the device is OFFLINE: two reads of the
\* conversion register have failed, the first having left the driver DEGRADED
C29_Witness ==
  /\ pc = "return" /\ last.op = "readRaw" /\ ~ok(last.st)
  /\ Ready(drv)
  /\ drv.driverState = "OFFLINE"
  /\ drv.consecutiveFailures = drv.config.offlineThreshold


----------------------------------------------------------------------------
(* The config word: building it and decoding it *)

\* the transport results given to the write of a built word
WordApp ==
  [App EXCEPT !.answers = { a \in Answers : a.st.code \in {"OK", "I2C_ERROR"} /\ a.data = 0 },
              !.maxIo = WordMaxIo]

\* the initialized drivers holding each legal combination of the fields of the
\* config word: 8 x 6 x 2 x 8 x 2 x 2 x 2 x 4 of them
WordDrivers ==
  { [NewDriver EXCEPT
       !.config = [GoodConfig(mode, 2, FALSE) EXCEPT
                     !.mux = mux, !.gain = gain, !.dataRate = rate,
                     !.compMode = compMode, !.compPolarity = compPolarity,
                     !.compLatch = compLatch, !.compQueue = compQueue],
       !.initialized = TRUE, !.driverState = "READY"] :
    mux \in { m \in 0..7 : isValidMux(m) },
    gain \in { g \in 0..7 : isValidGain(g) },
    mode \in { m \in 0..1 : isValidMode(m) },
    rate \in { r \in 0..7 : isValidDataRate(r) },
    compMode \in { m \in 0..1 : isValidCompMode(m) },
    compPolarity \in { p \in 0..1 : isValidCompPolarity(p) },
    compLatch \in { l \in 0..1 : isValidCompLatch(l) },
    compQueue \in { q \in 0..3 : isValidCompQueue(q) } }

InitWord ==
  /\ drv \in WordDrivers
  /\ now = 0
  /\ pc = "idle"
  /\ rb = NoLoop
  /\ last = NoCall

\* writeConfig is called with the word built from the stored configuration
WriteBuiltConfig(P) ==
  /\ Idle /\ Budget(P)
  /\ \E r \in Runs(LAMBDA io : writeConfig(Ctx(drv, io), buildConfigRegister(drv), now),
                   P.answers) :
       Return("writeConfig", buildConfigRegister(drv), r)

NextWord == WriteBuiltConfig(WordApp) \/ Returned

SpecWord == InitWord /\ [][NextWord]_vars

\* C30: the config word round trip. For every legal combination of mux, gain,
\* mode, data rate and the four comparator fields, the word built by
\* _buildConfigRegister is a 16-bit word with the start bit (bit 15) clear that
\* isValidConfigValue accepts (writeConfig does not answer INVALID_PARAM), and
\* the field extraction of writeConfig stores back the identical field set.
C30_ConfigWordRoundTrip ==
  [][ CallOf("writeConfig")
      => /\ last'.arg = buildConfigRegister(drv)
         /\ last'.arg \in 0..65535
         /\ ~StartBit(last'.arg)
         /\ isValidConfigValue(last'.arg)
         /\ last'.st.code # "INVALID_PARAM"
         /\ last'.st.code = "OK"
              => /\ StoredFields(drv') = StoredFields(drv)
                 /\ drv'.config = drv.config ]_vars

\* the word 0x7BFF, built from the largest value of every field, has been written
\* and decoded back to the fields it was built from
C30_Witness ==
  /\ pc = "return" /\ last.op = "writeConfig" /\ ok(last.st)
  /\ last.arg = 31743
  /\ StoredFields(drv) =
       [ mux |-> 7, gain |-> 5, mode |-> 1, dataRate |-> 7, compMode |-> 1,
         compPolarity |-> 1, compLatch |-> 1, compQueue |-> 3 ]


----------------------------------------------------------------------------
(* Status: its kinds and its two tests *)

\* Status.h lines 10-21: enum class Err
ErrKinds ==
  { "OK", "NOT_INITIALIZED", "INVALID_CONFIG", "I2C_ERROR", "TIMEOUT", "INVALID_PARAM",
    "DEVICE_NOT_FOUND", "CONVERSION_NOT_READY", "BUSY", "IN_PROGRESS" }

\* the int32_t details a Status is made with
StatusDetails == { -2147483647, -42, -2, -1, 0, 1, 2, 42, 50, 255, 65535, 2147483647 }

\* Status::Error(kind, message, detail) is made and handed to the application
MakeError ==
  /\ Idle
  /\ \E kind \in ErrKinds, detail \in StatusDetails :
       /\ last' = [op |-> "Status::Error", arg |-> [kind |-> kind, detail |-> detail],
                   st |-> Error(kind, detail), calls |-> <<>>]
       /\ pc' = "return"
       /\ UNCHANGED <<drv, now, rb>>

\* Status::Ok() is made and handed to the application
MakeOk ==
  /\ Idle
  /\ last' = [op |-> "Status::Ok", arg |-> 0, st |-> Ok, calls |-> <<>>]
  /\ pc' = "return"
  /\ UNCHANGED <<drv, now, rb>>

NextStatus == MakeError \/ MakeOk \/ Returned

SpecStatus == Init /\ [][NextStatus]_vars

\* C31: for every status kind k, ok() is true exactly when k is OK and
\* inProgress() exactly when k is IN_PROGRESS, so that a status in progress is
\* not ok; Ok() has kind OK, and Error(kind, msg, detail) keeps the kind and the
\* detail it is given.
C31_StatusKinds ==
  /\ last.op = "Status::Error"
       => /\ last.st.code = last.arg.kind
          /\ last.st.detail = last.arg.detail
          /\ ok(last.st) <=> last.arg.kind = "OK"
          /\ inProgress(last.st) <=> last.arg.kind = "IN_PROGRESS"
          /\ inProgress(last.st) => ~ok(last.st)
  /\ last.op = "Status::Ok"
       => /\ last.st.code = "OK" /\ last.st.detail = 0
          /\ ok(last.st) /\ ~inProgress(last.st)

\* Error(IN_PROGRESS, msg, 42) has been made: it is in progress and not ok
C31_Witness ==
  /\ pc = "return" /\ last.op = "Status::Error"
  /\ last.arg = [kind |-> "IN_PROGRESS", detail |-> 42]
  /\ inProgress(last.st) /\ ~ok(last.st) /\ last.st.detail = 42


----------------------------------------------------------------------------
(* startConversion(mux): the stored mux *)

\* C32: startConversion(mux) on an initialized driver stores the new mux only if
\* the start write succeeds. With a mux out of range it returns INVALID_PARAM
\* without a callback and changes nothing; when the tracked start write fails it
\* returns the status of the write, the stored configuration, mux included, is
\* what it was and the session is unchanged; and whenever the stored mux has
\* changed, it is the mux given, the one write made was answered OK and the
\* conversion is Pending.
C32_MuxStoredOnSuccess ==
  [][ (CallOf("startConversionMux") /\ drv.initialized)
      => /\ ~isValidMux(last'.arg)
              => /\ last'.st.code = "INVALID_PARAM"
                 /\ last'.calls = <<>>
                 /\ drv' = drv
         /\ (last'.calls # <<>> /\ ~ok(last'.calls[1].st))
              => /\ last'.st = last'.calls[1].st
                 /\ drv'.config = drv.config
                 /\ Session(drv') = Session(drv)
         /\ drv'.config.mux # drv.config.mux
              => /\ drv'.config.mux = last'.arg
                 /\ Len(last'.calls) = 1 /\ ok(last'.calls[1].st)
                 /\ Pending(drv')
         /\ Len(last'.calls) <= 1
         /\ \A i \in DOMAIN last'.calls :
               /\ last'.calls[i].fn = "i2cWrite" /\ last'.calls[i].tracked
               /\ last'.calls[i].reg = REG_CONFIG ]_vars

\* startConversion(4) on a driver whose stored mux is another one: the start
\* write has failed and the stored mux is the previous one
C32_Witness ==
  /\ pc = "return" /\ last.op = "startConversionMux" /\ last.arg = 4
  /\ Len(last.calls) = 1 /\ last.calls[1].st.code = "I2C_ERROR"
  /\ last.st.code = "I2C_ERROR"
  /\ drv.config.mux # 4
  /\ SessionIdle(drv)


----------------------------------------------------------------------------
(* Applying the full configuration *)

\* the operations that end by applying the full configuration (_applyConfig)
ApplyOps ==
  { "begin", "setMux", "setGain", "setDataRate", "setMode",
    "setComparatorMode", "setComparatorPolarity", "setComparatorLatch",
    "setComparatorQueue", "enableConversionReadyPin", "disableComparator" }

\* the register writes among the callbacks of a call
WritesOf(calls) == SelectSeq(calls, LAMBDA x : x.fn = "i2cWrite")

\* lines 792-803: the registers _applyConfig writes, in its order, and the values
\* it writes from the configuration cfg held by the driver d
ApplyOrder(d) ==
  << [reg |-> REG_LO_THRESH, value |-> ToUint16(d.config.compThresholdLow)],
     [reg |-> REG_HI_THRESH, value |-> ToUint16(d.config.compThresholdHigh)],
     [reg |-> REG_CONFIG, value |-> buildConfigRegister(d)] >>

\* C33: applying the full configuration, in begin and in every mutator that
\* re-applies it, issues tracked writes in the fixed order low-threshold register,
\* high-threshold register, config register, with the values of the stored
\* configuration; it stops at the first write that fails, issuing none after it
\* and returning its status; and _applyConfig resets the session to Idle only
\* after all three writes have succeeded, which it then always does (setMode and
\* begin clear the session themselves, before they apply the configuration).
C33_ApplyOrder ==
  [][ (pc = "idle" /\ pc' # "idle" /\ last'.op \in ApplyOps)
      => LET writes == WritesOf(last'.calls)
             n == Len(writes)
             allOk == n = 3 /\ \A i \in 1..3 : ok(writes[i].st)
         IN /\ n <= 3
            /\ \A i \in 1..n :
                  /\ writes[i].tracked
                  /\ writes[i].reg = ApplyOrder(drv')[i].reg
                  /\ writes[i].value = ApplyOrder(drv')[i].value
                  /\ i < n => ok(writes[i].st)
            /\ (n \in 1..2) => (~ok(writes[n].st) /\ last'.st = writes[n].st)
            /\ (n = 3 /\ ~ok(writes[3].st)) => last'.st = writes[3].st
            /\ allOk => (ok(last'.st) /\ SessionIdle(drv'))
            /\ (last'.op \notin {"begin", "setMode"} /\ ~allOk)
                 => Session(drv') = Session(drv) ]_vars

\* setGain on a driver with a Pending conversion: the write of the low threshold
\* succeeded and the write of the high threshold failed, the config register was
\* not written and the conversion is still Pending
C33_Witness ==
  /\ pc = "return" /\ last.op = "setGain"
  /\ Len(WritesOf(last.calls)) = 2
  /\ WritesOf(last.calls)[1].reg = REG_LO_THRESH /\ ok(WritesOf(last.calls)[1].st)
  /\ WritesOf(last.calls)[2].reg = REG_HI_THRESH /\ ~ok(WritesOf(last.calls)[2].st)
  /\ last.st = WritesOf(last.calls)[2].st
  /\ Pending(drv)


----------------------------------------------------------------------------
(* What readBlocking returns *)

\* C34: in single-shot mode readBlocking returns only one of: OK, after a
\* successful read of the conversion register made at or after start + conversion
\* time; the status of the start write, when startConversion returns anything
\* other than IN_PROGRESS or BUSY, before the loop is entered; the first error of
\* readRaw that is not CONVERSION_NOT_READY, returned from inside the loop, before
\* the deadline; or TIMEOUT, from a deadline test made at or after the deadline.
\* A pass of the loop that goes on polling has seen no callback fail, and no pass
\* invokes a callback before start + conversion time.
C34_ReadBlockingResults ==
  /\ [] ( ( /\ pc = "return" /\ last.op = "readBlocking"
            /\ drv.initialized /\ drv.config.mode = SINGLE_SHOT )
          => LET n == Len(last.calls)
             IN \/ /\ last.st.code = "OK"
                   /\ rb # NoLoop
                   /\ n >= 1
                   /\ last.calls[n].fn = "i2cWriteRead" /\ last.calls[n].tracked
                   /\ last.calls[n].reg = REG_CONVERSION /\ ok(last.calls[n].st)
                   /\ Sub32(rb.nowMs, rb.readyAtMs) >= 0
                \/ /\ rb = NoLoop
                   /\ n = 1
                   /\ last.calls[1].fn = "i2cWrite" /\ last.calls[1].reg = REG_CONFIG
                   /\ last.st = last.calls[1].st
                   /\ last.st.code \notin {"OK", "IN_PROGRESS", "BUSY"}
                \/ /\ rb # NoLoop
                   /\ n >= 1
                   /\ last.calls[n].fn = "i2cWriteRead" /\ last.calls[n].tracked
                   /\ last.st = last.calls[n].st
                   /\ last.st.code \notin {"OK", "CONVERSION_NOT_READY"}
                   /\ Sub32(rb.nowMs, rb.readyAtMs) >= 0
                   /\ Sub32(rb.whileMs, rb.deadlineMs) < 0
                \/ /\ last.st = Error("TIMEOUT", 0)
                   /\ rb # NoLoop
                   /\ n = 0
                   /\ Sub32(rb.whileMs, rb.deadlineMs) >= 0 )
  /\ [][ (pc = "body" /\ pc' = "while")
         => \A i \in DOMAIN last'.calls : ok(last'.calls[i].st) ]_vars
  /\ [][ (pc = "body" /\ pc' # pc /\ last'.calls # <<>>)
         => Sub32(now, rb.readyAtMs) >= 0 ]_vars

\* readBlocking has polled, the read of the conversion register has failed before
\* the deadline and readBlocking has returned that error at once
C34_Witness ==
  /\ pc = "return" /\ last.op = "readBlocking"
  /\ drv.initialized /\ drv.config.mode = SINGLE_SHOT
  /\ rb # NoLoop
  /\ last.st.code = "I2C_ERROR"
  /\ last.calls[Len(last.calls)].reg = REG_CONVERSION
  /\ Sub32(rb.whileMs, rb.deadlineMs) < 0
  /\ Sub32(rb.nowMs, rb.readyAtMs) >= 0


----------------------------------------------------------------------------
(* The millisecond clock near its wraparound *)

\* the calls of an application that runs while the 32-bit clock wraps
WrapApp ==
  [ConvApp EXCEPT
     !.configs = { GoodConfig(SINGLE_SHOT, 2, FALSE), GoodConfig(SINGLE_SHOT, 2, TRUE) },
     !.answers = { a \in Answers : a.st.code \in {"OK", "I2C_ERROR"} },
     !.tickLags = {0}]

\* the values of millis() when the application begins: one second after
\* power-up, 3 ms before the counter wraps from 0xFFFFFFFF to 0, and 3 ms before
\* it passes 2^31, where its int32 view wraps (the runs from them share no value)
ClockStarts == { 1000, Sub32(UINT32_MAX, 2), INT32_MAX - 2 }

\* the value of the counter one millisecond after t, on int32 views
NextMs(t) == IF t = INT32_MAX THEN -INT32_MAX - 1 ELSE t + 1

\* the value of the counter k milliseconds after it was s
RECURSIVE ClockAt(_, _)
ClockAt(s, k) == IF k = 0 THEN s ELSE NextMs(ClockAt(s, k - 1))

\* the milliseconds that have passed, when the counter shows t, since the
\* application began
MsSince(t) == CHOOSE k \in 0..WrapMaxClock : \E s \in ClockStarts : ClockAt(s, k) = t

\* the milliseconds that have really passed since the pending conversion started
ElapsedMs == MsSince(now) - MsSince(drv.conversionStartMs)

InitWrap ==
  /\ drv = NewDriver
  /\ now \in ClockStarts
  /\ pc = "idle"
  /\ rb = NoLoop
  /\ last = NoCall

\* a millisecond passes on the 32-bit counter
AdvanceClockWrap ==
  /\ pc # "return"
  /\ MsSince(now) < WrapMaxClock
  /\ now' = Add32(now, 1)
  /\ UNCHANGED <<drv, pc, rb, last>>

NextWrap ==
  \/ Begin(WrapApp) \/ StartConversion(WrapApp) \/ Tick(WrapApp)
  \/ ConversionReady(WrapApp) \/ ReadRaw(WrapApp)
  \/ ReadBlocking(WrapApp) \/ ReadBlockingWhile \/ ReadBlockingBody(WrapApp)
  \/ Returned \/ AdvanceClockWrap

SpecWrap == InitWrap /\ [][NextWrap]_vars

\* C35: the timing decisions are wraparound-safe. Whatever the absolute value of
\* the 32-bit millisecond clock when the conversion starts, also when the counter
\* wraps between the start and the check, tick, conversionReady and readRaw on a
\* Pending conversion pass the readiness gate (and then invoke a callback) exactly
\* when the conversion time has really elapsed since the start, the deadline test
\* of readBlocking ends the loop exactly when timeoutMs have really elapsed, and
\* its body polls exactly when the conversion time has.
C35_WrapSafe ==
  /\ [][ ( /\ pc = "idle" /\ pc' # "idle"
           /\ last'.op \in {"tick", "conversionReady", "readRaw"}
           /\ drv.initialized /\ Pending(drv) )
         => (last'.calls # <<>> <=> ElapsedMs >= getConversionTimeMs(drv)) ]_vars
  /\ [][ (pc = "while" /\ pc' # pc /\ Pending(drv))
         => (pc' = "return" <=> ElapsedMs >= rb.timeoutMs) ]_vars
  /\ [][ (pc = "body" /\ pc' # pc /\ Pending(drv))
         => (last'.calls # <<>> <=> ElapsedMs >= getConversionTimeMs(drv)) ]_vars

\* a conversion started at 0xFFFFFFFF has been found ready by conversionReady()
\* after the counter has wrapped to 2
C35_Witness ==
  /\ pc = "return" /\ last.op = "conversionReady" /\ last.st.code = "true"
  /\ last.calls # <<>>
  /\ drv.conversionStartMs = UINT32_MAX
  /\ now = 2
  /\ Ready(drv)


----------------------------------------------------------------------------
(* The three states of the conversion session *)

\* the calls of an application that starts, polls, reads and abandons conversions,
\* ends the driver and begins it again
SessionApp ==
  [ConvApp EXCEPT
     !.configs = { GoodConfig(SINGLE_SHOT, 2, FALSE), GoodConfig(SINGLE_SHOT, 2, TRUE) },
     !.rebegin = TRUE,
     !.answers = { a \in Answers : a.st.code \in {"OK", "I2C_ERROR"} },
     !.words = {50659},
     !.muxes = {4},
     !.tickLags = {0}]

NextSession ==
  \/ Begin(SessionApp) \/ End
  \/ StartConversion(SessionApp) \/ Tick(SessionApp)
  \/ ConversionReady(SessionApp) \/ ReadRaw(SessionApp)
  \/ WriteConfig(SessionApp) \/ SetMux(SessionApp)
  \/ Returned \/ AdvanceClock(SessionApp)

SpecSession == Init /\ [][NextSession]_vars

\* C36: in every reachable state the session is in exactly one of Idle, Pending
\* and Ready: the started and ready flags are never both true, and both are false
\* whenever the driver is not initialized.
C36_OneSessionState ==
  /\ ~(drv.conversionStarted /\ drv.conversionReady)
  /\ Cardinality({ s \in {"Idle", "Pending", "Ready"} :
                     \/ s = "Idle" /\ SessionIdle(drv)
                     \/ s = "Pending" /\ Pending(drv)
                     \/ s = "Ready" /\ Ready(drv) }) = 1
  /\ ~drv.initialized => SessionIdle(drv)

\* end() has been called on a driver that had started a conversion at 1 ms:
\* the driver is not initialized and the session is Idle
C36_Witness ==
  /\ pc = "return" /\ last.op = "end"
  /\ ~drv.initialized
  /\ drv.conversionStartMs = 1
  /\ drv.lastRawValue = 0
  /\ SessionIdle(drv)


----------------------------------------------------------------------------
(* A read of the conversion register that fails *)

\* the callback x is a tracked read of the conversion register
ConversionRead(x) == x.fn = "i2cWriteRead" /\ x.reg = REG_CONVERSION /\ x.tracked

\* C37: a failed read of the conversion register does not consume the
\* conversion. When readRaw() in single-shot mode has established readiness and
\* its tracked read of the conversion register then fails, readRaw returns that
\* error, the session is Ready and the cached last raw value and the start
\* timestamp are unchanged; and a readRaw() called when the session is Ready makes
\* that one read only, without a new start, and when it succeeds returns OK with
\* the value read and leaves the session Idle.
C37_FailedReadKeepsResult ==
  [][ (CallOf("readRaw") /\ drv.initialized /\ drv.config.mode = SINGLE_SHOT)
      => LET n == Len(last'.calls)
         IN /\ (n >= 1 /\ ConversionRead(last'.calls[n]) /\ ~ok(last'.calls[n].st))
                 => /\ last'.st = last'.calls[n].st
                    /\ Ready(drv') /\ ~drv'.conversionStarted
                    /\ drv'.lastRawValue = drv.lastRawValue
                    /\ drv'.conversionStartMs = drv.conversionStartMs
            /\ Ready(drv)
                 => /\ n = 1 /\ ConversionRead(last'.calls[1])
                    /\ ok(last'.calls[1].st)
                         => /\ ok(last'.st)
                            /\ drv'.lastRawValue = ToInt16(last'.calls[1].value)
                            /\ SessionIdle(drv') ]_vars

\* readRaw() has found the pending conversion finished, its read of the
\* conversion register has failed, and the session is Ready
C37_Witness ==
  /\ pc = "return" /\ last.op = "readRaw"
  /\ Len(last.calls) = 2
  /\ ConfigRead(last.calls[1]) /\ ok(last.calls[1].st)
  /\ ConversionRead(last.calls[2]) /\ last.calls[2].st.code = "I2C_ERROR"
  /\ last.st.code = "I2C_ERROR"
  /\ Ready(drv) /\ ~drv.conversionStarted
  /\ drv.conversionStartMs > 0


----------------------------------------------------------------------------
(* Setters whose configuration write fails *)

\* the calls of an application that changes every field of the configuration
SetApp ==
  [ConvApp EXCEPT
     !.configs = { GoodConfig(SINGLE_SHOT, 2, FALSE) },
     !.answers = { a \in Answers : a.st.code \in {"OK", "I2C_ERROR"} },
     !.muxes = {5}, !.gains = {1}, !.rates = {6}, !.modes = {CONTINUOUS, SINGLE_SHOT},
     !.compModes = {1}, !.compPolarities = {ACTIVE_HIGH}, !.compLatches = {1},
     !.compQueues = {ASSERT_1},
     !.tickLags = {0}]

NextSet ==
  \/ Begin(SetApp) \/ StartConversion(SetApp) \/ Tick(SetApp)
  \/ SetMux(SetApp) \/ SetGain(SetApp) \/ SetDataRate(SetApp) \/ SetMode(SetApp)
  \/ SetComparatorMode(SetApp) \/ SetComparatorPolarity(SetApp)
  \/ SetComparatorLatch(SetApp) \/ SetComparatorQueue(SetApp)
  \/ EnableConversionReadyPin(SetApp)
  \/ Returned \/ AdvanceClock(SetApp)

SpecSet == Init /\ [][NextSet]_vars

\* the setters that store their argument and apply the configuration
NoRollbackOps ==
  { "setMux", "setGain", "setDataRate", "setComparatorMode", "setComparatorPolarity",
    "setComparatorLatch", "setComparatorQueue", "enableConversionReadyPin" }

\* the configuration cfg holds what the setter op, called with arg, stores
StoredBy(op, arg, cfg) ==
  CASE op = "setMux" -> cfg.mux = arg
    [] op = "setGain" -> cfg.gain = arg
    [] op = "setDataRate" -> cfg.dataRate = arg
    [] op = "setMode" -> cfg.mode = arg
    [] op = "setComparatorMode" -> cfg.compMode = arg
    [] op = "setComparatorPolarity" -> cfg.compPolarity = arg
    [] op = "setComparatorLatch" -> cfg.compLatch = arg
    [] op = "setComparatorQueue" -> cfg.compQueue = arg
    [] op = "enableConversionReadyPin" ->
         /\ cfg.compThresholdLow = 0 /\ cfg.compThresholdHigh = -32768
         /\ cfg.compQueue = ASSERT_1 /\ cfg.compMode = TRADITIONAL
         /\ cfg.compLatch = NON_LATCHING

\* C38: setMux, setGain, setDataRate, the comparator field setters and
\* enableConversionReadyPin do not roll back on a transport failure. When one of
\* the configuration writes fails, the operation returns the status of that
\* write, the stored field(s) hold the new value and the conversion session is
\* what it was (a Pending or Ready conversion is not reset); setMode, which also
\* keeps the new mode, is the only one that leaves the session Idle then.
C38_NoRollback ==
  [][ ( /\ pc = "idle" /\ pc' # "idle"
        /\ last'.op \in NoRollbackOps \cup {"setMode"}
        /\ drv.initialized
        /\ WritesOf(last'.calls) # <<>>
        /\ ~ok(WritesOf(last'.calls)[Len(WritesOf(last'.calls))].st) )
      => /\ last'.st = WritesOf(last'.calls)[Len(WritesOf(last'.calls))].st
         /\ StoredBy(last'.op, last'.arg, drv'.config)
         /\ IF last'.op = "setMode"
            THEN SessionIdle(drv')
            ELSE Session(drv') = Session(drv) ]_vars

\* setMux(5) on a driver begun with mux 4 whose conversion is Ready: the write
\* has failed, the stored mux is 5 and the conversion is still Ready
C38_Witness ==
  /\ pc = "return" /\ last.op = "setMux" /\ last.arg = 5
  /\ last.st.code = "I2C_ERROR"
  /\ drv.config.mux = 5
  /\ Ready(drv)


----------------------------------------------------------------------------
(* readBlocking on a conversion that is already Pending *)

\* readBlocking waits for the Pending conversion of d, which was started at least
\* its timeout before the time t
StartedTimeoutAgo(d, loc, t) ==
  /\ Pending(d)
  /\ loc.deadlineMs = Add32(d.conversionStartMs, loc.timeoutMs)
  /\ Sub32(t, d.conversionStartMs) >= loc.timeoutMs

\* C39: readBlocking() called in single-shot mode while a conversion is Pending
\* issues no start write (no transport call at all, the driver is unchanged) and
\* measures its ready time and its deadline from the start timestamp of the
\* Pending conversion, not from the time of the call. Consequently, when that
\* conversion was started at least timeoutMs earlier, the first test of the loop
\* ends readBlocking with TIMEOUT and no read has been attempted, the conversion
\* still Pending.
C39_BlockingOnPending ==
  /\ [][ ( /\ CallOf("readBlocking")
           /\ drv.initialized /\ drv.config.mode = SINGLE_SHOT /\ Pending(drv) )
         => /\ last'.calls = <<>>
            /\ drv' = drv
            /\ pc' = "while"
            /\ rb'.deadlineMs = Add32(drv.conversionStartMs, last'.arg)
            /\ rb'.readyAtMs = Add32(drv.conversionStartMs, getConversionTimeMs(drv)) ]_vars
  /\ [][ ( /\ pc = "while" /\ pc' # pc
           /\ StartedTimeoutAgo(drv, rb, now) )
         => /\ pc' = "return"
            /\ last'.st.code = "TIMEOUT"
            /\ last'.calls = <<>>
            /\ drv' = drv ]_vars

\* readBlocking(4) was called 4 ms after the conversion was started and has
\* returned TIMEOUT: the conversion time had passed at the call, the driver polls
\* the config register (no ready pin) and no transport call has been made since
\* the start write, and the conversion is Pending
C39_Witness ==
  /\ pc = "return" /\ last.op = "readBlocking" /\ last.st.code = "TIMEOUT"
  /\ StartedTimeoutAgo(drv, rb, rb.nowMs)
  /\ Sub32(rb.nowMs, drv.conversionStartMs) >= getConversionTimeMs(drv)
  /\ drv.config.alertRdyPin = -1
  /\ drv.lastOkMs = drv.conversionStartMs
  /\ drv.totalFailures = 0


----------------------------------------------------------------------------
(* tick() whose poll of the config register fails *)

\* the call made the one tracked read of the config register, and it failed
FailedPoll(calls) ==
  /\ Len(calls) = 1
  /\ ConfigRead(calls[1])
  /\ CountsAsFailure(calls[1])

\* the poll of a readiness check told that the conversion has finished
PollSaysReady(calls, cfg) == calls # <<>> /\ ReadyIndication(calls[1], cfg)

\* C40: tick() swallows a failed status poll. When the tracked read of the config
\* register made by tick() fails, tick returns nothing, the health record is
\* updated (consecutiveFailures counted up, to its maximum; the failure recorded
\* as the last error; the DriverState DEGRADED below the offline threshold and
\* OFFLINE from it on), and the session is what it was: Pending, the start
\* timestamp unchanged. A later tick(), conversionReady() or readRaw() on that
\* Pending conversion, failures counted, whose poll tells that the conversion has
\* finished completes it: the conversion is Ready with the same start timestamp,
\* or has been read by readRaw.
C40_TickSwallowsFailedPoll ==
  /\ [][ (CallOf("tick") /\ FailedPoll(last'.calls))
         => /\ last'.st = St("void", 0)
            /\ Pending(drv) /\ Pending(drv')
            /\ Session(drv') = Session(drv)
            /\ drv'.consecutiveFailures =
                 (IF drv.consecutiveFailures < UINT8_MAX
                  THEN drv.consecutiveFailures + 1 ELSE drv.consecutiveFailures)
            /\ drv'.totalFailures = SatInc32(drv.totalFailures)
            /\ drv'.lastError = last'.calls[1].st
            /\ drv'.lastErrorMs = now
            /\ drv'.driverState =
                 (IF drv'.consecutiveFailures >= drv.config.offlineThreshold
                  THEN "OFFLINE" ELSE "DEGRADED") ]_vars
  /\ [][ ( /\ pc = "idle" /\ pc' # "idle"
           /\ last'.op \in {"tick", "conversionReady", "readRaw"}
           /\ drv.initialized /\ drv.config.mode = SINGLE_SHOT
           /\ Pending(drv) /\ drv.consecutiveFailures > 0
           /\ PollSaysReady(last'.calls, drv.config) )
         => /\ drv'.conversionStartMs = drv.conversionStartMs
            /\ IF last'.op = "readRaw" /\ ok(last'.st)
               THEN SessionIdle(drv')
               ELSE Ready(drv') ]_vars

\* tick() has polled the config register of a Pending conversion, the read has
\* failed for the second time in a row: the driver is OFFLINE and the conversion
\* is still Pending
C40_Witness ==
  /\ pc = "return" /\ last.op = "tick"
  /\ FailedPoll(last.calls)
  /\ Pending(drv)
  /\ drv.consecutiveFailures = 2
  /\ drv.driverState = "OFFLINE"

=============================================================================
